---------------------------- MODULE Spec2Model ----------------------------
(***************************************************************************)
(* A model of the expense manager: the AsyncStorage record store           *)
(* (src/utils/storage.ts), the combined transactions screen (StatsScreen,  *)
(* src/app/(tabs)/expenses.tsx), the reports screen (ReportsScreen,        *)
(* src/app/(tabs)/reports.tsx), the budget screen (BudgetScreen,           *)
(* src/app/(tabs)/income.tsx), ExpensesScreen (src/app/(tabs)/             *)
(* expenses.tsx), the theme provider (src/contexts/ThemeContext.tsx), the  *)
(* settings screen (src/app/(tabs)/settings.tsx) and the dashboard         *)
(* (src/app/(tabs)/index.tsx).                                             *)
(*                                                                         *)
(* Numbers.  Amounts are integers.  A JavaScript division is kept exact    *)
(* as a fraction [num, den]; den = 0 is what JavaScript prints as NaN or   *)
(* Infinity.  NaN is the number parseFloat gives for a text that is no     *)
(* number, NullNumber the null that JSON.stringify writes in its place.    *)
(*                                                                         *)
(* Storage.  AsyncStorage holds, per key, no item or a text; a text is     *)
(* kept as the JSON value it parses to, or as a text that does not parse.  *)
(*                                                                         *)
(* Time.  An instant (the getTime() of a Date) is a number of ticks since  *)
(* 1 January of year 0, 00:00 local time; a day has TicksPerDay ticks and  *)
(* a year the twelve months of DaysInMonth.  A date string that does not   *)
(* parse gives the Invalid Date, InvalidDate, whose getTime(), getMonth()  *)
(* and getFullYear() are NaN: every comparison with it is false.           *)
(***************************************************************************)
EXTENDS Integers, Sequences, FiniteSets

VARIABLES
    now,            \* the wall clock: what new Date() / Date.now() returns
    storage,        \* AsyncStorage: key -> the item stored under it
    consoleError,   \* the last storage call logged console.error
    call,           \* the storage function a client awaited last: its
                    \* argument and what its promise resolved to
    statsScreen,    \* state of StatsScreen (the transactions screen)
    reportsScreen,  \* state and memoized values of ReportsScreen
    budgetScreen,   \* state and derived values of BudgetScreen
    expensesScreen, \* state of ExpensesScreen
    statsFilters,   \* the filter state of StatsScreen and the device's time zone
    themeProvider,  \* state of ThemeProvider and its calls in flight
    settingsScreen, \* state of SettingsScreen and its calls in flight
    dashboard       \* state and memoized stats of Dashboard

vars ==
    <<now, storage, consoleError, call, statsScreen, reportsScreen,
      budgetScreen, expensesScreen, statsFilters, themeProvider,
      settingsScreen, dashboard>>

\* the components that the transactions, reports and budget screens do not
\* touch
otherScreens ==
    <<expensesScreen, statsFilters, themeProvider, settingsScreen, dashboard>>

\* the components that ExpensesScreen does not touch
exceptExpensesScreen ==
    <<statsScreen, reportsScreen, budgetScreen, statsFilters, themeProvider,
      settingsScreen, dashboard>>

\* the components that the filters of StatsScreen do not touch
exceptStatsFilters ==
    <<statsScreen, reportsScreen, budgetScreen, expensesScreen, themeProvider,
      settingsScreen, dashboard>>

\* the components that ThemeProvider and SettingsScreen do not touch
exceptSettings ==
    <<statsScreen, reportsScreen, budgetScreen, expensesScreen, statsFilters,
      dashboard>>

\* the components that Dashboard does not touch
exceptDashboard ==
    <<statsScreen, reportsScreen, budgetScreen, expensesScreen, statsFilters,
      themeProvider, settingsScreen>>

-----------------------------------------------------------------------------
(* Bounds of the model *)

\* ticks in a day: the resolution of the clock
TicksPerDay == 2
\* how many ticks the clock advances during a run
MaxTicks == 1
\* longest expense collection drawn for the reports and budget screens
MaxExpenses == 2
\* longest income collection drawn for the reports screen
MaxIncome == 1
\* longest budget collection drawn for the budget screen
MaxBudgets == 1
\* most records (expenses and income together) the transactions screen holds
MaxRecords == 2
\* longest expense collection drawn for the Top Expenses list
MaxTopExpenses == 6
\* most budgets the budget form creates
MaxFormBudgets == 2
\* most calls of toggleTheme that have not returned
MaxToggles == 2
\* most calls of updateSetting that have not returned
MaxUpdates == 1

-----------------------------------------------------------------------------
(* Date *)

\* getTime() of new Date(s) for a string s that does not parse (NaN)
InvalidDate == -1

DaysInMonth == <<31, 28, 31, 30, 31, 30, 31, 31, 30, 31, 30, 31>>

RECURSIVE DaysUpTo(_)
\* days in the first m months of a year
DaysUpTo(m) == IF m = 0 THEN 0 ELSE DaysInMonth[m] + DaysUpTo(m - 1)

\* days of the year before the first day of month index m (0 = January)
DaysBefore == [m \in 0..Len(DaysInMonth) |-> DaysUpTo(m)]

DaysPerYear == DaysBefore[Len(DaysInMonth)]

TicksPerYear == DaysPerYear * TicksPerDay

\* the month index (0 = January) of each day of the year (0 = 1 January)
MonthOfDay ==
    [dayOfYear \in 0..(DaysPerYear - 1) |->
        CHOOSE m \in 0..(Len(DaysInMonth) - 1) :
            DaysBefore[m] <= dayOfYear /\ dayOfYear < DaysBefore[m + 1]]

\* new Date(year, monthIndex, day): local midnight of that day
NewDate(year, monthIndex, day) ==
    (year * DaysPerYear + DaysBefore[monthIndex] + (day - 1)) * TicksPerDay

\* Date.prototype.getFullYear (NaN for the Invalid Date)
GetFullYear(d) == IF d = InvalidDate THEN InvalidDate ELSE d \div TicksPerYear

\* Date.prototype.getMonth: 0..11 (NaN for the Invalid Date)
GetMonth(d) ==
    IF d = InvalidDate THEN InvalidDate
    ELSE MonthOfDay[(d % TicksPerYear) \div TicksPerDay]

\* a >= b on two Dates: false when either is the Invalid Date
DateGe(a, b) == a # InvalidDate /\ b # InvalidDate /\ a >= b

\* a <= b on two Dates: false when either is the Invalid Date
DateLe(a, b) == a # InvalidDate /\ b # InvalidDate /\ a <= b

-----------------------------------------------------------------------------
(* Number *)

\* a / b
Div(a, b) == [num |-> a, den |-> b]

\* the number literal n as a fraction
Num(n) == [num |-> n, den |-> 1]

\* q * n for a fraction q
Times(q, n) == [num |-> q.num * n, den |-> q.den]

RECURSIVE SumAmounts(_)
\* records.reduce((sum, r) => sum + r.amount, 0)
SumAmounts(records) ==
    IF records = <<>> THEN 0
    ELSE SumAmounts(SubSeq(records, 1, Len(records) - 1))
         + records[Len(records)].amount

-----------------------------------------------------------------------------
(* ReportsScreen: the memoized values of src/app/(tabs)/reports.tsx *)

\* the values of the period modal
Periods == {"week", "month", "year"}

\* days of the 'week' period: 7 * 24 * 60 * 60 * 1000 ms
WeekDays == 7

\* startDate of filteredData: the switch on selectedPeriod
StartDate(selectedPeriod, currentDate) ==
    CASE selectedPeriod = "week" -> currentDate - WeekDays * TicksPerDay
      [] selectedPeriod = "month" ->
             NewDate(GetFullYear(currentDate), GetMonth(currentDate), 1)
      [] selectedPeriod = "year" -> NewDate(GetFullYear(currentDate), 0, 1)
      [] OTHER -> NewDate(GetFullYear(currentDate), GetMonth(currentDate), 1)

\* the filter with its start excluded: date > startDate && date <= currentDate
InPeriodAfterStart(date, startDate, currentDate) ==
    date # InvalidDate /\ date > startDate /\ DateLe(date, currentDate)

\* the filter written with the comparisons negated,
\* !(date < startDate) && !(date > currentDate): true of the Invalid Date
InPeriodNegated(date, startDate, currentDate) ==
    \/ date = InvalidDate
    \/ (date >= startDate /\ date <= currentDate)

\* the predicate of both filters of filteredData, on a record's date string
InPeriod(date, startDate, currentDate) ==
    DateGe(date, startDate) /\ DateLe(date, currentDate)

\* filteredData: the expenses and the income of the selected period
FilteredData(expenses, income, selectedPeriod, currentDate) ==
    LET startDate == StartDate(selectedPeriod, currentDate)
        keep(r) == InPeriod(r.date, startDate, currentDate)
    IN  [expenses |-> SelectSeq(expenses, keep),
         income |-> SelectSeq(income, keep)]

RECURSIVE CategoryTotals(_)
\* categoryTotals after the forEach: <<category, total>> pairs in the order
\* of Object.keys, the order in which each key was first assigned
CategoryTotals(expenses) ==
    IF expenses = <<>> THEN <<>>
    ELSE LET before == CategoryTotals(SubSeq(expenses, 1, Len(expenses) - 1))
             e == expenses[Len(expenses)]
             seen == {i \in DOMAIN before : before[i].name = e.category}
         IN  IF seen = {}
             THEN Append(before, [name |-> e.category, population |-> e.amount])
             ELSE [i \in DOMAIN before |->
                      IF i \in seen
                      THEN [name |-> before[i].name,
                            population |-> before[i].population + e.amount]
                      ELSE before[i]]

RECURSIVE SumPopulation(_)
\* Object.values(categoryTotals).reduce((sum, amount) => sum + amount, 0)
SumPopulation(totals) ==
    IF totals = <<>> THEN 0
    ELSE SumPopulation(SubSeq(totals, 1, Len(totals) - 1))
         + totals[Len(totals)].population

\* categoryData: the pie chart entries (name and population; the colours
\* and legend fonts are presentation)
CategoryData(filteredExpenses) ==
    LET categoryTotals == CategoryTotals(filteredExpenses)
    IN  IF SumPopulation(categoryTotals) = 0 THEN <<>> ELSE categoryTotals

\* the month labels of monthlyTrend
months == <<"Jan", "Feb", "Mar", "Apr", "May", "Jun",
            "Jul", "Aug", "Sep", "Oct", "Nov", "Dec">>

\* the filter of monthlyData without its test of the year
InMonthAnyYear(date, index, currentYear) == GetMonth(date) = index

\* the filter of monthlyData: the records of month `index` of currentYear
InMonth(date, index, currentYear) ==
    GetMonth(date) = index /\ GetFullYear(date) = currentYear

\* monthlyTrend without the slices: all twelve months
MonthlyTrendAllMonths(expenses, income, currentDate) ==
    LET currentYear == GetFullYear(currentDate)
        monthlyData ==
            [m \in DOMAIN months |->
                LET index == m - 1
                    inMonth(r) == InMonth(r.date, index, currentYear)
                IN  [month |-> months[m],
                     expenses |-> SumAmounts(SelectSeq(expenses, inMonth)),
                     income |-> SumAmounts(SelectSeq(income, inMonth))]]
    IN  [labels |-> months,
         expenses |-> [k \in DOMAIN monthlyData |-> monthlyData[k].expenses],
         income |-> [k \in DOMAIN monthlyData |-> monthlyData[k].income]]

\* monthlyTrend: labels and the two data sets, cut after the current month
MonthlyTrend(expenses, income, currentDate) ==
    LET currentYear == GetFullYear(currentDate)
        monthlyData ==
            [m \in DOMAIN months |->
                LET index == m - 1
                    inMonth(r) == InMonth(r.date, index, currentYear)
                IN  [month |-> months[m],
                     expenses |-> SumAmounts(SelectSeq(expenses, inMonth)),
                     income |-> SumAmounts(SelectSeq(income, inMonth))]]
        shown == SubSeq(monthlyData, 1, GetMonth(currentDate) + 1)
    IN  [labels |-> SubSeq(months, 1, GetMonth(currentDate) + 1),
         expenses |-> [k \in DOMAIN shown |-> shown[k].expenses],
         income |-> [k \in DOMAIN shown |-> shown[k].income]]

RECURSIVE SortByAmount(_)
\* records.sort((a, b) => b.amount - a.amount): descending by amount, equal
\* amounts in their former order
SortByAmount(records) ==
    IF records = <<>> THEN <<>>
    ELSE LET sorted == SortByAmount(SubSeq(records, 1, Len(records) - 1))
             last == records[Len(records)]
             ahead == Cardinality({k \in DOMAIN sorted :
                                      sorted[k].amount >= last.amount})
         IN  SubSeq(sorted, 1, ahead) \o <<last>>
                 \o SubSeq(sorted, ahead + 1, Len(sorted))

\* the N of the Top Expenses list: slice(0, 5)
TopN == 5

\* records.slice(0, end)
Slice(records, end) ==
    SubSeq(records, 1, IF Len(records) < end THEN Len(records) ELSE end)

\* the list with the slice taken before the sort: slice(0, 5).sort(...)
TopExpensesSliceFirst(filteredExpenses) ==
    SortByAmount(Slice(filteredExpenses, TopN))

\* the rows of Top Expenses: filteredData.expenses.sort(...).slice(0, 5)
TopExpenses(filteredExpenses) == Slice(SortByAmount(filteredExpenses), TopN)

\* stats.topCategory is null
NoCategory == [name |-> "null", population |-> 0]

RECURSIVE MaxCategory(_, _)
\* categoryData.reduce((max, c) => c.population > max.population ? c : max,
\*                     categoryData[0])
MaxCategory(categoryData, k) ==
    IF k = 0 THEN categoryData[1]
    ELSE LET max == MaxCategory(categoryData, k - 1)
         IN  IF categoryData[k].population > max.population
             THEN categoryData[k] ELSE max

\* stats.averageExpense without the test of the length
AverageExpenseUnguarded(totalExpenses, count) == Div(totalExpenses, count)

\* stats.averageExpense
AverageExpense(totalExpenses, count) ==
    IF count > 0 THEN Div(totalExpenses, count) ELSE Num(0)

\* stats with totalIncome reduced over the wrong collection
StatsIncomeFromExpenses(filteredData, categoryData) ==
    LET totalExpenses == SumAmounts(filteredData.expenses)
        totalIncome == SumAmounts(filteredData.expenses)
    IN  [totalExpenses |-> totalExpenses,
         totalIncome |-> totalIncome,
         balance |-> totalIncome - totalExpenses,
         averageExpense |->
             AverageExpense(totalExpenses, Len(filteredData.expenses)),
         topCategory |->
             IF Len(categoryData) > 0
             THEN MaxCategory(categoryData, Len(categoryData))
             ELSE NoCategory,
         transactionCount |->
             Len(filteredData.expenses) + Len(filteredData.income)]

\* stats
Stats(filteredData, categoryData) ==
    LET totalExpenses == SumAmounts(filteredData.expenses)
        totalIncome == SumAmounts(filteredData.income)
    IN  [totalExpenses |-> totalExpenses,
         totalIncome |-> totalIncome,
         balance |-> totalIncome - totalExpenses,
         averageExpense |->
             AverageExpense(totalExpenses, Len(filteredData.expenses)),
         topCategory |->
             IF Len(categoryData) > 0
             THEN MaxCategory(categoryData, Len(categoryData))
             ELSE NoCategory,
         transactionCount |->
             Len(filteredData.expenses) + Len(filteredData.income)]

-----------------------------------------------------------------------------
(* JSON *)

\* NaN: what parseFloat gives for a text that does not start with a number
NaN == -1000001

\* null, where a JSON text holds it in the place of a number
NullNumber == -1000002

\* the object part of a value that is no object
NoObject == [darkMode |-> FALSE, currency |-> ""]

\* null
JsonNull == [type |-> "null", items |-> <<>>, object |-> NoObject]

\* an array of records
JsonArray(items) == [type |-> "array", items |-> items, object |-> NoObject]

\* an object (the settings)
JsonObject(object) == [type |-> "object", items |-> <<>>, object |-> object]

\* a number as JSON.stringify writes it: NaN is written null
NumberToJson(n) == IF n = NaN THEN NullNumber ELSE n

\* a record as JSON.stringify writes it
RecordToJson(r) ==
    IF "amount" \in DOMAIN r
    THEN [r EXCEPT !.amount = NumberToJson(r.amount)]
    ELSE r

\* the value that the text JSON.stringify(value) holds
ToJson(value) ==
    [value EXCEPT
        !.items = [k \in DOMAIN value.items |-> RecordToJson(value.items[k])]]

\* AsyncStorage has no item under the key: getItem resolves to null
NoItem == [kind |-> "none", json |-> JsonNull]

\* an item whose text is no JSON: JSON.parse throws a SyntaxError
Unparsable == [kind |-> "unparsable", json |-> JsonNull]

\* an item whose text parses to the value json
Text(json) == [kind |-> "json", json |-> json]

\* JSON.stringify(value)
JsonStringify(value) == Text(ToJson(value))

-----------------------------------------------------------------------------
(* The record store, reading: src/utils/storage.ts *)

KEYS ==
    [EXPENSES |-> "expenses", INCOME |-> "income", BUDGETS |-> "budgets",
     ACCOUNTS |-> "accounts", SETTINGS |-> "settings"]

\* the keys under which a collection is stored
CollectionKeys == {KEYS.EXPENSES, KEYS.INCOME, KEYS.BUDGETS, KEYS.ACCOUNTS}

\* { darkMode: false, currency: the rupee sign }
DefaultSettings == [darkMode |-> FALSE, currency |-> "rupee"]

\* what a get function returns when there is nothing to parse
Default(key) ==
    IF key = KEYS.SETTINGS THEN JsonObject(DefaultSettings)
    ELSE JsonArray(<<>>)

\* the get functions: data ? JSON.parse(data) : default inside try/catch.
\* getItemOk is whether AsyncStorage.getItem resolves.
Get(key, getItemOk) ==
    IF ~getItemOk THEN Default(key)
    ELSE LET data == storage[key]
         IN  CASE data.kind = "none" -> Default(key)
               [] data.kind = "unparsable" -> Default(key)
               [] data.kind = "json" -> data.json

\* the get function logs console.error: getItem rejected or JSON.parse threw
GetLogsError(key, getItemOk) ==
    ~getItemOk \/ storage[key].kind = "unparsable"

\* getExpenses as a screen's loadData awaits it, over a store whose items
\* the app wrote (arrays): the array it resolves to
GetExpenses == Get(KEYS.EXPENSES, TRUE).items

\* getIncome, likewise
GetIncome == Get(KEYS.INCOME, TRUE).items

\* getBudgets, likewise
GetBudgets == Get(KEYS.BUDGETS, TRUE).items

-----------------------------------------------------------------------------
(* The clock *)

\* the first reading of the clock: 15 March of year 1, 00:00
ClockStart == NewDate(1, 2, 15)

\* the first readings of the clock: the first instant of year 1, ClockStart,
\* the last instant of year 1
ClockStarts == {NewDate(1, 0, 1), ClockStart, NewDate(2, 0, 1) - 1}

\* time passes
Tick ==
    /\ \E start \in ClockStarts : start <= now /\ now < start + MaxTicks
    /\ now' = now + 1
    /\ UNCHANGED <<storage, consoleError, call, statsScreen, reportsScreen,
                   budgetScreen, otherScreens>>

-----------------------------------------------------------------------------
(* Sequences without repetition over a pool of records *)

RECURSIVE SeqsUpTo(_, _)
\* the sequences of at most n distinct elements of pool
SeqsUpTo(pool, n) ==
    IF n = 0 THEN {<<>>}
    ELSE LET shorter == SeqsUpTo(pool, n - 1)
         IN  shorter \cup
             {Append(s, r) : s \in {t \in shorter : Len(t) = n - 1},
                             r \in pool}

\* the elements of a sequence
Range(s) == {s[i] : i \in DOMAIN s}

\* no element occurs twice
Injective(s) == Cardinality(Range(s)) = Len(s)

\* records.map(r => r.id === id ? data : r)
ReplaceById(records, id, data) ==
    [k \in DOMAIN records |-> IF records[k].id = id THEN data ELSE records[k]]

-----------------------------------------------------------------------------
(* ReportsScreen: state, render and handlers *)

\* An Expense as the analytics read it: id, amount, category, date (the
\* getTime() of new Date(date)).  The fields no computation reads
\* (description, paymentMethod, account, location, recurring) are left out.
Expense(id, amount, category, date) ==
    [id |-> id, amount |-> amount, category |-> category, date |-> date]

\* An Income record as the analytics read it
Income(id, amount, source, date) ==
    [id |-> id, amount |-> amount, source |-> source, date |-> date]

\* Stored expenses the reports are drawn over.  The dates sit on and around
\* the edges of the three periods at ClockStart; storage may hold a record
\* dated after the clock (written before the clock was set back) and a
\* record whose date string does not parse.
ReportExpensePool ==
    { Expense(1, 7, "Food", InvalidDate),
      Expense(2, 1, "Food", NewDate(0, 11, 30)),
      Expense(3, 2, "Travel", NewDate(0, 2, 10)),
      Expense(4, 4, "Food", NewDate(1, 0, 1)),
      Expense(5, 8, "Travel", NewDate(1, 2, 1) - 1),
      Expense(6, 16, "Food", NewDate(1, 2, 1)),
      Expense(7, 32, "Travel", ClockStart - WeekDays * TicksPerDay),
      Expense(8, 64, "Food", ClockStart),
      Expense(9, 3, "Food", ClockStart + 1),
      Expense(10, 5, "Travel", NewDate(1, 2, 20)),
      Expense(11, 0, "Travel", NewDate(1, 2, 2)) }

\* Stored income the reports are drawn over
ReportIncomePool ==
    { Income(21, 9, "Salary", InvalidDate),
      Income(22, 20, "Salary", NewDate(1, 2, 1)),
      Income(23, 40, "Freelance", ClockStart + 1) }

\* the render of ReportsScreen: filteredData, categoryData and stats at the
\* instant `at` (their useMemo ran), monthlyTrend as given, then the rows of
\* Top Expenses.  Array.prototype.sort sorts in place: after the render the
\* memoized filteredData.expenses is the sorted array; categoryData and
\* stats were computed before, from the array as the filter returned it.
ReportsRender(expenses, income, selectedPeriod, at, monthlyTrend, trendAt) ==
    LET filteredData == FilteredData(expenses, income, selectedPeriod, at)
        categoryData == CategoryData(filteredData.expenses)
    IN  [expenses |-> expenses,
         income |-> income,
         selectedPeriod |-> selectedPeriod,
         filteredData |-> [expenses |-> SortByAmount(filteredData.expenses),
                           income |-> filteredData.income],
         filteredAt |-> at,
         categoryData |-> categoryData,
         monthlyTrend |-> monthlyTrend,
         trendAt |-> trendAt,
         stats |-> Stats(filteredData, categoryData),
         topExpenses |-> TopExpenses(filteredData.expenses)]

\* the first render: useState([]), useState('month')
ReportsMounted(at) ==
    ReportsRender(<<>>, <<>>, "month", at, MonthlyTrend(<<>>, <<>>, at), at)

\* loadData (also onRefresh): setExpenses, setIncome; every memo runs again
ReportsLoadData ==
    /\ reportsScreen' =
           ReportsRender(GetExpenses, GetIncome, reportsScreen.selectedPeriod,
                         now, MonthlyTrend(GetExpenses, GetIncome, now), now)
    /\ UNCHANGED <<now, otherScreens,
                   storage, consoleError, call, statsScreen, budgetScreen>>

\* the period modal: setSelectedPeriod(option.value); filteredData,
\* categoryData and stats run again, monthlyTrend does not
SetSelectedPeriod(period) ==
    /\ period # reportsScreen.selectedPeriod
    /\ reportsScreen' =
           ReportsRender(reportsScreen.expenses, reportsScreen.income, period,
                         now, reportsScreen.monthlyTrend,
                         reportsScreen.trendAt)
    /\ UNCHANGED <<now, otherScreens,
                   storage, consoleError, call, statsScreen, budgetScreen>>

-----------------------------------------------------------------------------
(* The forms: texts and numbers *)

\* parseFloat of an amount text
ParseFloat(text) ==
    CASE text = "5" -> 5
      [] text = "-3" -> -3
      [] text = "0" -> 0
      [] text = "10" -> 10
      [] text = "." -> NaN

\* amount.toString()
AmountToString(amount) ==
    CASE amount = 5 -> "5"
      [] amount = -3 -> "-3"
      [] amount = 0 -> "0"
      [] amount = 10 -> "10"

\* EXPENSE_CATEGORIES[0] and INCOME_SOURCES[0]
DefaultCategory == "Food & Dining"
DefaultSource == "Salary"

\* editingTransaction, editingBudget is null
Null == [type |-> "null"]

-----------------------------------------------------------------------------
(* BudgetScreen: the derived values of src/app/(tabs)/income.tsx *)

\* A Budget: id, category, amount, period and the stored spent (alerts,
\* which no computation reads, is left out)
Budget(id, category, amount, period, spent) ==
    [id |-> id, category |-> category, amount |-> amount, period |-> period,
     spent |-> spent]

\* the factor 0.8 of isNearLimit, as a fraction
NearLimit == [num |-> 8, den |-> 10]

\* isCurrentPeriod of budgetsWithSpent
IsCurrentPeriod(period, expenseDate, currentDate) ==
    IF period = "monthly"
    THEN /\ GetMonth(expenseDate) = GetMonth(currentDate)
         /\ GetFullYear(expenseDate) = GetFullYear(currentDate)
    ELSE TRUE

\* categoryExpenses of budgetsWithSpent: the expenses counted for a budget
CategoryExpenses(budget, expenses, currentDate) ==
    LET counted(e) ==
            /\ e.category = budget.category
            /\ IsCurrentPeriod(budget.period, e.date, currentDate)
    IN  SelectSeq(expenses, counted)

\* percentage of budgetsWithSpent
Percentage(spent, amount) ==
    IF amount > 0 THEN Times(Div(spent, amount), 100) ELSE Num(0)

\* isOverBudget of budgetsWithSpent
IsOverBudget(spent, amount) == spent > amount

\* isNearLimit without its upper limit: spent > amount * 0.8
IsNearLimitUncapped(spent, amount) ==
    spent * NearLimit.den > amount * NearLimit.num

\* isNearLimit of budgetsWithSpent: spent > amount * 0.8 && spent <= amount
\* (amount * 0.8 is exact for an integer amount that is compared with an
\* integer spent)
IsNearLimit(spent, amount) ==
    /\ spent * NearLimit.den > amount * NearLimit.num
    /\ spent <= amount

\* one element of budgetsWithSpent with the spread written last,
\* {spent, percentage, ..., ...budget}: the stored spent wins
WithSpentSpreadLast(budget, expenses, currentDate) ==
    LET spent == SumAmounts(CategoryExpenses(budget, expenses, currentDate))
    IN  [id |-> budget.id,
         category |-> budget.category,
         amount |-> budget.amount,
         period |-> budget.period,
         spent |-> budget.spent,
         percentage |-> Percentage(spent, budget.amount),
         isOverBudget |-> IsOverBudget(spent, budget.amount),
         isNearLimit |-> IsNearLimit(spent, budget.amount)]

\* one element of budgetsWithSpent: {...budget, spent, percentage, ...}
WithSpent(budget, expenses, currentDate) ==
    LET spent == SumAmounts(CategoryExpenses(budget, expenses, currentDate))
    IN  [id |-> budget.id,
         category |-> budget.category,
         amount |-> budget.amount,
         period |-> budget.period,
         spent |-> spent,
         percentage |-> Percentage(spent, budget.amount),
         isOverBudget |-> IsOverBudget(spent, budget.amount),
         isNearLimit |-> IsNearLimit(spent, budget.amount)]

\* budgetsWithSpent
BudgetsWithSpent(budgets, expenses, currentDate) ==
    [i \in DOMAIN budgets |-> WithSpent(budgets[i], expenses, currentDate)]

RECURSIVE SumSpent(_)
\* budgetsWithSpent.reduce((sum, budget) => sum + budget.spent, 0)
SumSpent(withSpent) ==
    IF withSpent = <<>> THEN 0
    ELSE SumSpent(SubSeq(withSpent, 1, Len(withSpent) - 1))
         + withSpent[Len(withSpent)].spent

\* resetForm: the form of the budget modal (alerts, which no computation
\* reads, is left out)
EmptyBudgetForm ==
    [category |-> DefaultCategory, amount |-> "", period |-> "monthly"]

\* the modal of BudgetScreen as first rendered, and after closeModal
ClosedBudgetModal ==
    [isModalVisible |-> FALSE,
     editingBudget |-> Null,
     formData |-> EmptyBudgetForm,
     alert |-> "none"]

\* the render of BudgetScreen at the instant `at`, its modal closed
BudgetRender(budgets, expenses, at) ==
    LET budgetsWithSpent == BudgetsWithSpent(budgets, expenses, at)
        over(b) == b.isOverBudget
    IN  [budgets |-> budgets,
         expenses |-> expenses,
         budgetsWithSpent |-> budgetsWithSpent,
         renderedAt |-> at,
         totalBudget |-> SumAmounts(budgets),
         totalSpent |-> SumSpent(budgetsWithSpent),
         overBudgetCount |-> Len(SelectSeq(budgetsWithSpent, over)),
         modal |-> ClosedBudgetModal]

\* the first render: useState([]) twice
BudgetMounted(at) == BudgetRender(<<>>, <<>>, at)

\* loadData: setBudgets, setExpenses, and the render that follows
BudgetLoadData ==
    /\ budgetScreen' =
           [BudgetRender(GetBudgets, GetExpenses, now)
               EXCEPT !.modal = budgetScreen.modal]
    /\ UNCHANGED <<now, otherScreens,
                   storage, consoleError, call, statsScreen, reportsScreen>>

\* onRefresh: setRefreshing(true) renders the screen again before loadData
\* has answered
BudgetRefreshing ==
    /\ budgetScreen' =
           [BudgetRender(budgetScreen.budgets, budgetScreen.expenses, now)
               EXCEPT !.modal = budgetScreen.modal]
    /\ UNCHANGED <<now, otherScreens,
                   storage, consoleError, call, statsScreen, reportsScreen>>

\* Stored expenses the budgets are computed over: amounts around 80% and
\* 100% of a budget of 10, dates inside and outside the current month and
\* the last seven days, a negative amount (the forms accept "-3")
BudgetExpensePool ==
    { Expense(1, 8, "Food", NewDate(1, 2, 14)),
      Expense(2, 1, "Food", ClockStart),
      Expense(3, 2, "Food", NewDate(1, 2, 2)),
      Expense(4, 12, "Food", NewDate(1, 2, 9)),
      Expense(5, -3, "Food", NewDate(1, 2, 14)),
      Expense(6, 4, "Food", NewDate(1, 2, 20)),
      Expense(7, 5, "Food", NewDate(1, 1, 20)),
      Expense(8, 6, "Food", NewDate(0, 2, 10)),
      Expense(9, 7, "Food", InvalidDate),
      Expense(10, 9, "Travel", NewDate(1, 2, 14)) }

\* Stored budgets: a limit of 10 or 0, either period, and a stored spent
\* that is stale
BudgetPool ==
    { Budget(31, c, a, p, 0) :
          c \in {"Food", "Travel"}, a \in {0, 10},
          p \in {"weekly", "monthly"} }
    \cup { Budget(32, "Food", 10, p, 99) : p \in {"weekly", "monthly"} }

-----------------------------------------------------------------------------
(* The record store, writing: src/utils/storage.ts *)

\* What a save function (saveExpenses, saveIncome, saveBudgets, ...) hands
\* its caller when AsyncStorage.setItem resolved (setItemOk) or rejected:
\* the try/catch around setItem logs the error and the promise resolves
SaveOutcome(setItemOk) == "resolved"

\* the store after setItem(key, JSON.stringify(collection))
SetItem(key, collection, setItemOk) ==
    IF setItemOk
    THEN [storage EXCEPT ![key] = JsonStringify(JsonArray(collection))]
    ELSE storage

\* a client awaits a get function (getExpenses, getIncome, getBudgets,
\* getAccounts, getSettings); getItemOk is whether getItem resolves
GetCall(key, getItemOk) ==
    /\ call' = [fn |-> "get", key |-> key, argument |-> JsonNull,
                result |-> Get(key, getItemOk)]
    /\ consoleError' = GetLogsError(key, getItemOk)
    /\ UNCHANGED <<now, otherScreens,
                   storage, statsScreen, reportsScreen, budgetScreen>>

\* a client awaits a save function (saveExpenses, saveIncome, saveBudgets,
\* saveAccounts, saveSettings) on a value; the promise resolves to undefined
SaveCall(key, value, setItemOk) ==
    /\ storage' = IF setItemOk
                  THEN [storage EXCEPT ![key] = JsonStringify(value)]
                  ELSE storage
    /\ call' = [fn |-> "save", key |-> key, argument |-> value,
                result |-> JsonNull]
    /\ consoleError' = ~setItemOk
    /\ UNCHANGED <<now, otherScreens,
                   statsScreen, reportsScreen, budgetScreen>>

-----------------------------------------------------------------------------
(* BudgetScreen, the budget modal: src/app/(tabs)/income.tsx *)

\* what the user types into the amount field of the budget form
BudgetAmountTexts == {"", "0", "10", "-3"}

\* the categories the picker of the budget form is set to
BudgetCategories == {DefaultCategory, "Transportation"}

\* the screen rendered again at `at` with the budgets and the modal given
BudgetScreenWith(budgets, modal, at) ==
    [BudgetRender(budgets, budgetScreen.expenses, at) EXCEPT !.modal = modal]

\* the user dismisses the alert of BudgetScreen
BudgetDismissAlert ==
    /\ budgetScreen.modal.alert # "none"
    /\ budgetScreen' = [budgetScreen EXCEPT !.modal.alert = "none"]
    /\ UNCHANGED <<now, otherScreens,
                   storage, consoleError, call, statsScreen, reportsScreen>>

\* openModal() from the add button
BudgetOpenModalAdd ==
    /\ budgetScreen.modal.alert = "none"
    /\ ~budgetScreen.modal.isModalVisible
    /\ budgetScreen' =
           [budgetScreen EXCEPT !.modal.editingBudget = Null,
                                !.modal.formData = EmptyBudgetForm,
                                !.modal.isModalVisible = TRUE]
    /\ UNCHANGED <<now, otherScreens,
                   storage, consoleError, call, statsScreen, reportsScreen>>

\* openModal(budget) from the edit button of a row of budgetsWithSpent
BudgetOpenModalEdit(budget) ==
    /\ budgetScreen.modal.alert = "none"
    /\ ~budgetScreen.modal.isModalVisible
    /\ budgetScreen' =
           [budgetScreen EXCEPT
               !.modal.editingBudget = budget,
               !.modal.formData = [category |-> budget.category,
                                   amount |-> AmountToString(budget.amount),
                                   period |-> budget.period],
               !.modal.isModalVisible = TRUE]
    /\ UNCHANGED <<now, otherScreens,
                   storage, consoleError, call, statsScreen, reportsScreen>>

\* onChangeText of the amount field of the budget form
BudgetSetAmount(text) ==
    /\ budgetScreen.modal.alert = "none"
    /\ budgetScreen.modal.isModalVisible
    /\ text # budgetScreen.modal.formData.amount
    /\ budgetScreen' = [budgetScreen EXCEPT !.modal.formData.amount = text]
    /\ UNCHANGED <<now, otherScreens,
                   storage, consoleError, call, statsScreen, reportsScreen>>

\* onValueChange of the category picker of the budget form
BudgetSetCategory(category) ==
    /\ budgetScreen.modal.alert = "none"
    /\ budgetScreen.modal.isModalVisible
    /\ category # budgetScreen.modal.formData.category
    /\ budgetScreen' =
           [budgetScreen EXCEPT !.modal.formData.category = category]
    /\ UNCHANGED <<now, otherScreens,
                   storage, consoleError, call, statsScreen, reportsScreen>>

\* closeModal of BudgetScreen
BudgetCloseModal ==
    /\ budgetScreen.modal.alert = "none"
    /\ budgetScreen.modal.isModalVisible
    /\ budgetScreen' = [budgetScreen EXCEPT !.modal = ClosedBudgetModal]
    /\ UNCHANGED <<now, otherScreens,
                   storage, consoleError, call, statsScreen, reportsScreen>>

\* budgets.find(budget => budget.category === formData.category &&
\*                        budget.id !== editingBudget?.id) found one
ExistingBudget(budgets, formData, editingBudget) ==
    \E k \in DOMAIN budgets :
        /\ budgets[k].category = formData.category
        /\ (editingBudget = Null \/ budgets[k].id # editingBudget.id)

\* saveBudget; setItemOk is whether AsyncStorage.setItem resolves
SaveBudget(setItemOk) ==
    LET modal == budgetScreen.modal
        formData == modal.formData
        editingBudget == modal.editingBudget
    IN
    /\ modal.alert = "none"
    /\ modal.isModalVisible
    /\ IF formData.amount = ""
       THEN /\ budgetScreen' =
                   [budgetScreen EXCEPT
                       !.modal.alert = "Error: required fields"]
            /\ UNCHANGED <<storage, consoleError>>
       ELSE IF ExistingBudget(budgetScreen.budgets, formData, editingBudget)
       THEN /\ budgetScreen' =
                   [budgetScreen EXCEPT
                       !.modal.alert = "Error: Budget already exists"]
            /\ UNCHANGED <<storage, consoleError>>
       ELSE LET budgetData ==
                    Budget(IF editingBudget # Null THEN editingBudget.id
                           ELSE now,
                           formData.category,
                           ParseFloat(formData.amount),
                           formData.period,
                           IF editingBudget # Null THEN editingBudget.spent
                           ELSE 0)
                updatedBudgets ==
                    IF editingBudget # Null
                    THEN ReplaceById(budgetScreen.budgets, editingBudget.id,
                                     budgetData)
                    ELSE Append(budgetScreen.budgets, budgetData)
            IN  /\ Len(updatedBudgets) <= MaxFormBudgets
                /\ storage' = SetItem(KEYS.BUDGETS, updatedBudgets, setItemOk)
                /\ consoleError' = ~setItemOk
                /\ budgetScreen' =
                       IF SaveOutcome(setItemOk) = "resolved"
                       THEN BudgetScreenWith(
                                updatedBudgets,
                                [ClosedBudgetModal EXCEPT !.alert = "Success"],
                                now)
                       ELSE [budgetScreen EXCEPT
                                !.modal.alert = "Error: Failed to save budget"]
    /\ UNCHANGED <<now, otherScreens, call, statsScreen, reportsScreen>>

\* deleteBudget(budgetId), confirmed in the alert
DeleteBudget(budgetId, setItemOk) ==
    LET keep(b) == b.id # budgetId
        updatedBudgets == SelectSeq(budgetScreen.budgets, keep)
    IN  /\ budgetScreen.modal.alert = "none"
        /\ ~budgetScreen.modal.isModalVisible
        /\ storage' = SetItem(KEYS.BUDGETS, updatedBudgets, setItemOk)
        /\ consoleError' = ~setItemOk
        /\ budgetScreen' =
               IF SaveOutcome(setItemOk) = "resolved"
               THEN BudgetScreenWith(updatedBudgets, budgetScreen.modal, now)
               ELSE [budgetScreen EXCEPT
                        !.modal.alert = "Error: Failed to delete budget"]
        /\ UNCHANGED <<now, otherScreens, call, statsScreen, reportsScreen>>

-----------------------------------------------------------------------------
(* StatsScreen, the transactions screen: src/app/(tabs)/expenses.tsx *)

\* what the user types into an amount field
AmountTexts == {"", "5", "-3"}


\* resetExpenseForm, resetIncomeForm (amount and category/source; the
\* other fields are copied to the record as typed)
EmptyExpenseForm == [amount |-> "", category |-> DefaultCategory]
EmptyIncomeForm == [amount |-> "", source |-> DefaultSource]

\* the first render of StatsScreen
StatsMounted ==
    [expenses |-> <<>>,
     income |-> <<>>,
     currentModalType |-> "expense",
     editingTransaction |-> Null,
     isModalVisible |-> FALSE,
     expenseFormData |-> EmptyExpenseForm,
     incomeFormData |-> EmptyIncomeForm,
     alert |-> "none"]

\* allTransactions: every expense and income with its type
AllTransactions ==
    {[id |-> e.id, amount |-> e.amount, category |-> e.category,
      date |-> e.date, type |-> "expense"] : e \in Range(statsScreen.expenses)}
    \cup
    {[id |-> i.id, amount |-> i.amount, source |-> i.source,
      date |-> i.date, type |-> "income"] : i \in Range(statsScreen.income)}

\* the user dismisses the alert that Alert.alert shows; until then the
\* dialog covers the screen
DismissAlert ==
    /\ statsScreen.alert # "none"
    /\ statsScreen' = [statsScreen EXCEPT !.alert = "none"]
    /\ UNCHANGED <<now, otherScreens,
                   storage, consoleError, call, reportsScreen, budgetScreen>>

\* loadData of StatsScreen (on mount and on pull to refresh)
StatsLoadData ==
    /\ statsScreen.alert = "none"
    /\ statsScreen' = [statsScreen EXCEPT !.expenses = GetExpenses,
                                          !.income = GetIncome]
    /\ UNCHANGED <<now, otherScreens,
                   storage, consoleError, call, reportsScreen, budgetScreen>>

\* openModal(defaultType) from the add button
OpenModalAdd(defaultType) ==
    /\ statsScreen.alert = "none"
    /\ ~statsScreen.isModalVisible
    /\ statsScreen' = [statsScreen EXCEPT !.currentModalType = defaultType,
                                          !.editingTransaction = Null,
                                          !.expenseFormData = EmptyExpenseForm,
                                          !.incomeFormData = EmptyIncomeForm,
                                          !.isModalVisible = TRUE]
    /\ UNCHANGED <<now, otherScreens,
                   storage, consoleError, call, reportsScreen, budgetScreen>>

\* openModal(transaction.type, transaction) from the detail modal
OpenModalEdit(transaction) ==
    /\ statsScreen.alert = "none"
    /\ ~statsScreen.isModalVisible
    /\ statsScreen' =
           IF transaction.type = "expense"
           THEN [statsScreen EXCEPT
                    !.currentModalType = transaction.type,
                    !.editingTransaction = transaction,
                    !.expenseFormData = [amount |-> AmountToString(transaction.amount),
                                         category |-> transaction.category],
                    !.isModalVisible = TRUE]
           ELSE [statsScreen EXCEPT
                    !.currentModalType = transaction.type,
                    !.editingTransaction = transaction,
                    !.incomeFormData = [amount |-> AmountToString(transaction.amount),
                                        source |-> transaction.source],
                    !.isModalVisible = TRUE]
    /\ UNCHANGED <<now, otherScreens,
                   storage, consoleError, call, reportsScreen, budgetScreen>>

\* the Expense / Income toggle of the modal
SetCurrentModalType(type) ==
    /\ statsScreen.alert = "none"
    /\ statsScreen.isModalVisible
    /\ type # statsScreen.currentModalType
    /\ statsScreen' = [statsScreen EXCEPT !.currentModalType = type]
    /\ UNCHANGED <<now, otherScreens,
                   storage, consoleError, call, reportsScreen, budgetScreen>>

\* onChangeText of the amount field of the form that is shown
SetAmountText(text) ==
    /\ statsScreen.alert = "none"
    /\ statsScreen.isModalVisible
    /\ statsScreen' =
           IF statsScreen.currentModalType = "expense"
           THEN [statsScreen EXCEPT !.expenseFormData.amount = text]
           ELSE [statsScreen EXCEPT !.incomeFormData.amount = text]
    /\ statsScreen' # statsScreen
    /\ UNCHANGED <<now, otherScreens,
                   storage, consoleError, call, reportsScreen, budgetScreen>>

\* closeModal
ClosedModal(screen) ==
    [screen EXCEPT !.isModalVisible = FALSE,
                   !.editingTransaction = Null,
                   !.expenseFormData = EmptyExpenseForm,
                   !.incomeFormData = EmptyIncomeForm]

CloseModal ==
    /\ statsScreen.alert = "none"
    /\ statsScreen.isModalVisible
    /\ statsScreen' = ClosedModal(statsScreen)
    /\ UNCHANGED <<now, otherScreens,
                   storage, consoleError, call, reportsScreen, budgetScreen>>

\* what saveTransaction does once its save function has answered: the rest
\* of the try block, or the catch block
AfterSave(outcome, key, updated) ==
    IF outcome = "resolved"
    THEN [ClosedModal(statsScreen) EXCEPT ![key] = updated,
                                          !.alert = "Success"]
    ELSE [statsScreen EXCEPT !.alert = "Error: Failed to save"]

\* saveTransaction; setItemOk is whether AsyncStorage.setItem resolves
SaveTransaction(setItemOk) ==
    LET editing == statsScreen.editingTransaction
        id == IF editing # Null THEN editing.id ELSE now
        date == IF editing # Null THEN editing.date ELSE now
    IN
    /\ statsScreen.alert = "none"
    /\ statsScreen.isModalVisible
    /\ IF statsScreen.currentModalType = "expense"
       THEN IF statsScreen.expenseFormData.amount = ""
            THEN /\ statsScreen' =
                        [statsScreen EXCEPT !.alert = "Error: required fields"]
                 /\ UNCHANGED <<storage, consoleError>>
            ELSE LET expenseData ==
                         Expense(id,
                                 ParseFloat(statsScreen.expenseFormData.amount),
                                 statsScreen.expenseFormData.category, date)
                     updatedExpenses ==
                         IF editing # Null /\ editing.type = "expense"
                         THEN ReplaceById(statsScreen.expenses, editing.id,
                                          expenseData)
                         ELSE Append(statsScreen.expenses, expenseData)
                 IN  /\ Len(updatedExpenses) + Len(statsScreen.income)
                            <= MaxRecords
                     /\ storage' = SetItem("expenses", updatedExpenses,
                                           setItemOk)
                     /\ consoleError' = ~setItemOk
                     /\ statsScreen' = AfterSave(SaveOutcome(setItemOk),
                                                 "expenses", updatedExpenses)
       ELSE IF statsScreen.incomeFormData.amount = ""
            THEN /\ statsScreen' =
                        [statsScreen EXCEPT !.alert = "Error: required fields"]
                 /\ UNCHANGED <<storage, consoleError>>
            ELSE LET incomeData ==
                         Income(id,
                                ParseFloat(statsScreen.incomeFormData.amount),
                                statsScreen.incomeFormData.source, date)
                     updatedIncome ==
                         IF editing # Null /\ editing.type = "income"
                         THEN ReplaceById(statsScreen.income, editing.id,
                                          incomeData)
                         ELSE Append(statsScreen.income, incomeData)
                 IN  /\ Len(statsScreen.expenses) + Len(updatedIncome)
                            <= MaxRecords
                     /\ storage' = SetItem("income", updatedIncome, setItemOk)
                     /\ consoleError' = ~setItemOk
                     /\ statsScreen' = AfterSave(SaveOutcome(setItemOk),
                                                 "income", updatedIncome)
    /\ UNCHANGED <<now, otherScreens, call, reportsScreen, budgetScreen>>

\* deleteTransaction(transactionId, type), confirmed in the alert
DeleteTransaction(transaction, setItemOk) ==
    LET key == IF transaction.type = "expense" THEN "expenses" ELSE "income"
        keep(r) == r.id # transaction.id
        updated == SelectSeq(statsScreen[key], keep)
    IN  /\ statsScreen.alert = "none"
        /\ ~statsScreen.isModalVisible
        /\ storage' = SetItem(key, updated, setItemOk)
        /\ consoleError' = ~setItemOk
        /\ statsScreen' =
               IF SaveOutcome(setItemOk) = "resolved"
               THEN [statsScreen EXCEPT ![key] = updated]
               ELSE [statsScreen EXCEPT !.alert = "Error: Failed to delete"]
        /\ UNCHANGED <<now, otherScreens, call, reportsScreen, budgetScreen>>

-----------------------------------------------------------------------------
(* ExpensesScreen: src/app/(tabs)/expenses.tsx *)

\* the first render of ExpensesScreen
ExpensesMounted ==
    [expenses |-> <<>>,
     editingExpense |-> Null,
     isModalVisible |-> FALSE,
     formData |-> EmptyExpenseForm,
     alert |-> "none"]

\* the user dismisses the alert of ExpensesScreen
ExpensesDismissAlert ==
    /\ expensesScreen.alert # "none"
    /\ expensesScreen' = [expensesScreen EXCEPT !.alert = "none"]
    /\ UNCHANGED <<now, storage, consoleError, call, exceptExpensesScreen>>

\* loadData of ExpensesScreen (on mount and on pull to refresh)
ExpensesLoadData ==
    /\ expensesScreen.alert = "none"
    /\ expensesScreen' = [expensesScreen EXCEPT !.expenses = GetExpenses]
    /\ UNCHANGED <<now, storage, consoleError, call, exceptExpensesScreen>>

\* openModal() from the add button
ExpensesOpenModalAdd ==
    /\ expensesScreen.alert = "none"
    /\ ~expensesScreen.isModalVisible
    /\ expensesScreen' = [expensesScreen EXCEPT !.formData = EmptyExpenseForm,
                                                !.editingExpense = Null,
                                                !.isModalVisible = TRUE]
    /\ UNCHANGED <<now, storage, consoleError, call, exceptExpensesScreen>>

\* openModal(expense) from the row of an expense
ExpensesOpenModalEdit(expense) ==
    /\ expensesScreen.alert = "none"
    /\ ~expensesScreen.isModalVisible
    /\ expensesScreen' =
           [expensesScreen EXCEPT
               !.editingExpense = expense,
               !.formData = [amount |-> AmountToString(expense.amount),
                             category |-> expense.category],
               !.isModalVisible = TRUE]
    /\ UNCHANGED <<now, storage, consoleError, call, exceptExpensesScreen>>

\* onChangeText of the amount field
ExpensesSetAmount(text) ==
    /\ expensesScreen.alert = "none"
    /\ expensesScreen.isModalVisible
    /\ text # expensesScreen.formData.amount
    /\ expensesScreen' = [expensesScreen EXCEPT !.formData.amount = text]
    /\ UNCHANGED <<now, storage, consoleError, call, exceptExpensesScreen>>

\* closeModal of ExpensesScreen
ExpensesClosedModal(screen) ==
    [screen EXCEPT !.isModalVisible = FALSE,
                   !.formData = EmptyExpenseForm,
                   !.editingExpense = Null]

ExpensesCloseModal ==
    /\ expensesScreen.alert = "none"
    /\ expensesScreen.isModalVisible
    /\ expensesScreen' = ExpensesClosedModal(expensesScreen)
    /\ UNCHANGED <<now, storage, consoleError, call, exceptExpensesScreen>>

\* saveExpense; setItemOk is whether AsyncStorage.setItem resolves
SaveExpense(setItemOk) ==
    LET editingExpense == expensesScreen.editingExpense
        formData == expensesScreen.formData
    IN
    /\ expensesScreen.alert = "none"
    /\ expensesScreen.isModalVisible
    /\ IF formData.amount = ""
       THEN /\ expensesScreen' =
                   [expensesScreen EXCEPT !.alert = "Error: required fields"]
            /\ UNCHANGED <<storage, consoleError>>
       ELSE LET expenseData ==
                    Expense(IF editingExpense # Null
                            THEN editingExpense.id ELSE now,
                            ParseFloat(formData.amount),
                            formData.category,
                            IF editingExpense # Null
                            THEN editingExpense.date ELSE now)
                updatedExpenses ==
                    IF editingExpense # Null
                    THEN ReplaceById(expensesScreen.expenses,
                                     editingExpense.id, expenseData)
                    ELSE Append(expensesScreen.expenses, expenseData)
            IN  /\ Len(updatedExpenses) <= MaxRecords
                /\ storage' = SetItem("expenses", updatedExpenses, setItemOk)
                /\ consoleError' = ~setItemOk
                /\ expensesScreen' =
                       IF SaveOutcome(setItemOk) = "resolved"
                       THEN [ExpensesClosedModal(expensesScreen) EXCEPT
                                !.expenses = updatedExpenses,
                                !.alert = "Success"]
                       ELSE [expensesScreen EXCEPT
                                !.alert = "Error: Failed to save expense"]
    /\ UNCHANGED <<now, call, exceptExpensesScreen>>

\* deleteExpense(expenseId), confirmed in the alert
DeleteExpense(expenseId, setItemOk) ==
    LET keep(expense) == expense.id # expenseId
        updatedExpenses == SelectSeq(expensesScreen.expenses, keep)
    IN  /\ expensesScreen.alert = "none"
        /\ ~expensesScreen.isModalVisible
        /\ storage' = SetItem("expenses", updatedExpenses, setItemOk)
        /\ consoleError' = ~setItemOk
        /\ expensesScreen' =
               IF SaveOutcome(setItemOk) = "resolved"
               THEN [expensesScreen EXCEPT !.expenses = updatedExpenses]
               ELSE [expensesScreen EXCEPT
                        !.alert = "Error: Failed to delete expense"]
        /\ UNCHANGED <<now, call, exceptExpensesScreen>>

-----------------------------------------------------------------------------
(* StatsScreen: the filters of the transaction list *)

\* The time zones of the device: the ticks that local time is ahead of UTC
TimeZones == {-1, 0, 1}

\* date.toISOString().split('T')[0]: the calendar day of the instant in UTC,
\* kept as the number of that day
ToISODate(date, timezone) == (date - timezone) \div TicksPerDay

\* new Date("YYYY-MM-DD"): midnight UTC of that day
ParseISODate(day, timezone) == day * TicksPerDay + timezone

\* getCurrentMonthRange
GetCurrentMonthRange(timezone) ==
    LET year == GetFullYear(now)
        month == GetMonth(now)
        firstDay == NewDate(year, month, 1)
        lastDay == NewDate(year, month + 1, 0)
    IN  [start |-> ToISODate(firstDay, timezone),
         end |-> ToISODate(lastDay, timezone)]

\* the filters StatsScreen is first rendered with, and that clearFilters
\* sets (selectedAccount is left out with the account of the records)
DefaultFilters(timezone) ==
    [selectedType |-> "all",
     selectedCategory |-> "all",
     startDate |-> GetCurrentMonthRange(timezone).start,
     endDate |-> GetCurrentMonthRange(timezone).end,
     timezone |-> timezone]

\* filteredTransactions
FilteredTransactions ==
    LET matches(transaction) ==
            LET matchesType ==
                    \/ statsFilters.selectedType = "all"
                    \/ transaction.type = statsFilters.selectedType
                matchesStartDate ==
                    DateGe(transaction.date,
                           ParseISODate(statsFilters.startDate,
                                        statsFilters.timezone))
                matchesEndDate ==
                    DateLe(transaction.date,
                           ParseISODate(statsFilters.endDate,
                                        statsFilters.timezone))
                matchesCategorySearch ==
                    \/ statsFilters.selectedCategory = "all"
                    \/ /\ transaction.type = "expense"
                       /\ transaction.category = statsFilters.selectedCategory
                    \/ /\ transaction.type = "income"
                       /\ transaction.source = statsFilters.selectedCategory
            IN  /\ matchesType
                /\ matchesStartDate
                /\ matchesEndDate
                /\ matchesCategorySearch
    IN  {transaction \in AllTransactions : matches(transaction)}

\* setSelectedType from the filter modal
SetSelectedType(type) ==
    /\ type # statsFilters.selectedType
    /\ statsFilters' = [statsFilters EXCEPT !.selectedType = type]
    /\ UNCHANGED <<now, storage, consoleError, call, exceptStatsFilters>>

\* clearFilters
ClearFilters ==
    /\ statsFilters' = DefaultFilters(statsFilters.timezone)
    /\ statsFilters' # statsFilters
    /\ UNCHANGED <<now, storage, consoleError, call, exceptStatsFilters>>

-----------------------------------------------------------------------------
(* ThemeProvider (src/contexts/ThemeContext.tsx) and SettingsScreen       *)
(* (src/app/(tabs)/settings.tsx).  An awaited storage call takes two      *)
(* steps: AsyncStorage reads or writes the item, and the code after the   *)
(* await runs; other calls may run in between.                            *)

\* settings.darkMode || false, for settings that are an object
DarkModeOf(settings) ==
    IF "darkMode" \in DOMAIN settings.object
    THEN settings.object.darkMode
    ELSE FALSE

\* { ...settings, [key]: value }; the spread of null has no property
SpreadSettings(settings, key, value) ==
    LET keys == IF settings.type = "object"
                THEN DOMAIN settings.object ELSE {}
    IN  JsonObject([k \in keys \cup {key} |->
                       IF k = key THEN value ELSE settings.object[k]])

\* an async function that awaits getSettings: it waits for getItem, holds
\* the settings getSettings resolved to, or has returned
AwaitsGetSettings == [pc |-> "getSettings", settings |-> JsonNull]
Resolved(settings) == [pc |-> "resolved", settings |-> settings]
Returned == [pc |-> "returned", settings |-> JsonNull]

\* useState of SettingsScreen (biometrics, which nothing sets, is left out)
InitialSettings ==
    [darkMode |-> FALSE, currency |-> "rupee", notifications |-> TRUE]

\* the first render of ThemeProvider; its effect has called loadTheme
ThemeMounted ==
    [isDark |-> FALSE,
     loadTheme |-> AwaitsGetSettings,
     toggleTheme |-> <<>>,
     failed |-> FALSE]

\* the first render of SettingsScreen; its effect has called loadSettings
SettingsMounted ==
    [settings |-> JsonObject(InitialSettings),
     loadSettings |-> AwaitsGetSettings,
     updateSetting |-> <<>>,
     alert |-> "none"]

\* the effect of SettingsScreen on isDark:
\* setSettings(prev => ({ ...prev, darkMode: isDark }))
SyncDarkMode(isDark) ==
    [settingsScreen EXCEPT
        !.settings = SpreadSettings(settingsScreen.settings, "darkMode", isDark)]

\* loadTheme: getSettings reads the item
LoadThemeGetSettings(getItemOk) ==
    /\ themeProvider.loadTheme.pc = "getSettings"
    /\ themeProvider' =
           [themeProvider EXCEPT
               !.loadTheme = Resolved(Get(KEYS.SETTINGS, getItemOk)),
               !.failed = @ \/ GetLogsError(KEYS.SETTINGS, getItemOk)]
    /\ consoleError' = GetLogsError(KEYS.SETTINGS, getItemOk)
    /\ UNCHANGED <<now, storage, call, settingsScreen, exceptSettings>>

\* loadTheme after its await: setIsDark(settings.darkMode || false); on
\* settings that are null the property access throws and the catch block
\* logs the error
LoadThemeResume ==
    LET settings == themeProvider.loadTheme.settings
        isDark == IF settings.type = "object"
                  THEN DarkModeOf(settings) ELSE themeProvider.isDark
    IN  /\ themeProvider.loadTheme.pc = "resolved"
        /\ themeProvider' =
               [themeProvider EXCEPT
                   !.isDark = isDark,
                   !.loadTheme = Returned,
                   !.failed = @ \/ settings.type # "object"]
        /\ consoleError' = (settings.type # "object")
        /\ settingsScreen' = SyncDarkMode(isDark)
        /\ UNCHANGED <<now, storage, call, exceptSettings>>

\* toggleTheme up to its first await (also updateSetting('darkMode', value)
\* of SettingsScreen, which calls it): setIsDark(!isDark), getSettings()
ToggleTheme ==
    LET newDarkMode == ~themeProvider.isDark
    IN  /\ Len(themeProvider.toggleTheme) < MaxToggles
        /\ themeProvider' =
               [themeProvider EXCEPT
                   !.isDark = newDarkMode,
                   !.toggleTheme =
                       Append(@, [newDarkMode |-> newDarkMode,
                                  pc |-> "getSettings",
                                  settings |-> JsonNull])]
        /\ settingsScreen' = SyncDarkMode(newDarkMode)
        /\ UNCHANGED <<now, storage, consoleError, call, exceptSettings>>

\* toggleTheme number k: getSettings reads the item
ToggleThemeGetSettings(k, getItemOk) ==
    /\ k \in DOMAIN themeProvider.toggleTheme
    /\ themeProvider.toggleTheme[k].pc = "getSettings"
    /\ themeProvider' =
           [themeProvider EXCEPT
               !.toggleTheme[k].pc = "resolved",
               !.toggleTheme[k].settings = Get(KEYS.SETTINGS, getItemOk),
               !.failed = @ \/ GetLogsError(KEYS.SETTINGS, getItemOk)]
    /\ consoleError' = GetLogsError(KEYS.SETTINGS, getItemOk)
    /\ UNCHANGED <<now, storage, call, settingsScreen, exceptSettings>>

\* a sequence without its element k
Without(s, k) == SubSeq(s, 1, k - 1) \o SubSeq(s, k + 1, Len(s))

\* toggleTheme number k after its await:
\* saveSettings({ ...settings, darkMode: newDarkMode }) writes the item and
\* the function returns
ToggleThemeSaveSettings(k, setItemOk) ==
    /\ k \in DOMAIN themeProvider.toggleTheme
    /\ themeProvider.toggleTheme[k].pc = "resolved"
    /\ storage' =
           IF setItemOk
           THEN [storage EXCEPT
                    ![KEYS.SETTINGS] =
                        JsonStringify(
                            SpreadSettings(
                                themeProvider.toggleTheme[k].settings,
                                "darkMode",
                                themeProvider.toggleTheme[k].newDarkMode))]
           ELSE storage
    /\ themeProvider' =
           [themeProvider EXCEPT !.toggleTheme = Without(@, k),
                                 !.failed = @ \/ ~setItemOk]
    /\ consoleError' = ~setItemOk
    /\ UNCHANGED <<now, call, settingsScreen, exceptSettings>>

\* loadSettings: getSettings reads the item
LoadSettingsGetSettings(getItemOk) ==
    /\ settingsScreen.loadSettings.pc = "getSettings"
    /\ settingsScreen' =
           [settingsScreen EXCEPT
               !.loadSettings = Resolved(Get(KEYS.SETTINGS, getItemOk))]
    /\ themeProvider' =
           [themeProvider EXCEPT
               !.failed = @ \/ GetLogsError(KEYS.SETTINGS, getItemOk)]
    /\ consoleError' = GetLogsError(KEYS.SETTINGS, getItemOk)
    /\ UNCHANGED <<now, storage, call, exceptSettings>>

\* loadSettings after its await: setSettings(settingsData)
LoadSettingsResume ==
    /\ settingsScreen.loadSettings.pc = "resolved"
    /\ settingsScreen' =
           [settingsScreen EXCEPT
               !.settings = settingsScreen.loadSettings.settings,
               !.loadSettings = Returned]
    /\ UNCHANGED <<now, storage, consoleError, call, themeProvider,
                   exceptSettings>>

\* updateSetting('notifications', value) up to its await:
\* setSettings(updatedSettings), saveSettings(updatedSettings)
UpdateSetting(value) ==
    LET updatedSettings ==
            SpreadSettings(settingsScreen.settings, "notifications", value)
    IN  /\ settingsScreen.alert = "none"
        /\ Len(settingsScreen.updateSetting) < MaxUpdates
        /\ settingsScreen' =
               [settingsScreen EXCEPT
                   !.settings = updatedSettings,
                   !.updateSetting = Append(@, updatedSettings)]
        /\ UNCHANGED <<now, storage, consoleError, call, themeProvider,
                       exceptSettings>>

\* updateSetting number k: saveSettings writes the item and the function
\* returns
UpdateSettingSaveSettings(k, setItemOk) ==
    /\ k \in DOMAIN settingsScreen.updateSetting
    /\ storage' =
           IF setItemOk
           THEN [storage EXCEPT
                    ![KEYS.SETTINGS] =
                        JsonStringify(settingsScreen.updateSetting[k])]
           ELSE storage
    /\ settingsScreen' =
           [settingsScreen EXCEPT !.updateSetting = Without(@, k)]
    /\ themeProvider' = [themeProvider EXCEPT !.failed = @ \/ ~setItemOk]
    /\ consoleError' = ~setItemOk
    /\ UNCHANGED <<now, call, exceptSettings>>

\* clearAllData: the alert that asks the user to confirm
ClearAllData ==
    /\ settingsScreen.alert = "none"
    /\ settingsScreen' = [settingsScreen EXCEPT !.alert = "Clear All Data"]
    /\ UNCHANGED <<now, storage, consoleError, call, themeProvider,
                   exceptSettings>>

\* the Cancel button of the alert, and the OK button of the alert that
\* follows Delete All
SettingsDismissAlert ==
    /\ settingsScreen.alert # "none"
    /\ settingsScreen' = [settingsScreen EXCEPT !.alert = "none"]
    /\ UNCHANGED <<now, storage, consoleError, call, themeProvider,
                   exceptSettings>>

\* the Delete All button of the alert:
\* await Promise.all([saveExpenses([]), saveIncome([])]), then the alert
\* 'All data has been cleared' (the save functions never reject)
DeleteAll(expensesOk, incomeOk) ==
    /\ settingsScreen.alert = "Clear All Data"
    /\ storage' =
           [storage EXCEPT
               ![KEYS.EXPENSES] =
                   IF expensesOk THEN JsonStringify(JsonArray(<<>>)) ELSE @,
               ![KEYS.INCOME] =
                   IF incomeOk THEN JsonStringify(JsonArray(<<>>)) ELSE @]
    /\ consoleError' = (~expensesOk \/ ~incomeOk)
    /\ settingsScreen' = [settingsScreen EXCEPT !.alert = "Success"]
    /\ UNCHANGED <<now, call, themeProvider, exceptSettings>>

-----------------------------------------------------------------------------
(* Dashboard: src/app/(tabs)/index.tsx *)

\* stats of Dashboard, computed at currentDate
DashboardStats(expenses, income, budgets, currentDate) ==
    LET inMonth(r) ==
            /\ GetMonth(r.date) = GetMonth(currentDate)
            /\ GetFullYear(r.date) = GetFullYear(currentDate)
        monthlyExpenses == SumAmounts(SelectSeq(expenses, inMonth))
        monthlyIncome == SumAmounts(SelectSeq(income, inMonth))
        alerts(budget) ==
            LET counted(expense) ==
                    /\ expense.category = budget.category
                    /\ IF budget.period = "monthly"
                       THEN inMonth(expense) ELSE TRUE
                categoryExpenses == SumAmounts(SelectSeq(expenses, counted))
            IN  categoryExpenses * NearLimit.den
                    > budget.amount * NearLimit.num
    IN  [monthlyExpenses |-> monthlyExpenses,
         monthlyIncome |-> monthlyIncome,
         balance |-> monthlyIncome - monthlyExpenses,
         budgetAlerts |-> Len(SelectSeq(budgets, alerts))]

\* the render of Dashboard whose useMemo computed stats at the instant `at`
DashboardRender(expenses, income, budgets, at) ==
    [expenses |-> expenses,
     income |-> income,
     budgets |-> budgets,
     stats |-> DashboardStats(expenses, income, budgets, at),
     statsAt |-> at]

\* the first render: useState([]) three times
DashboardMounted(at) == DashboardRender(<<>>, <<>>, <<>>, at)

\* loadData of Dashboard: the collections are set and, being new arrays,
\* make useMemo compute stats again
DashboardLoadData ==
    /\ dashboard' = DashboardRender(GetExpenses, GetIncome, GetBudgets, now)
    /\ dashboard' # dashboard
    /\ UNCHANGED <<now, storage, consoleError, call, exceptDashboard>>

-----------------------------------------------------------------------------
(* Specifications *)

\* nothing stored yet
EmptyStorage ==
    [expenses |-> NoItem, income |-> NoItem, budgets |-> NoItem,
     accounts |-> NoItem, settings |-> NoItem]

\* the store in which the app has saved these collections
Stored(expenses, income, budgets) ==
    [EmptyStorage EXCEPT
        !.expenses = JsonStringify(JsonArray(expenses)),
        !.income = JsonStringify(JsonArray(income)),
        !.budgets = JsonStringify(JsonArray(budgets))]

\* no storage function has been awaited
NoCall ==
    [fn |-> "none", key |-> "none", argument |-> JsonNull, result |-> JsonNull]

\* the screens as first rendered at the instant `at`
MountedAt(at) ==
    /\ now = at
    /\ consoleError = FALSE
    /\ call = NoCall
    /\ statsScreen = StatsMounted
    /\ reportsScreen = ReportsMounted(at)
    /\ budgetScreen = BudgetMounted(at)
    /\ expensesScreen = ExpensesMounted
    /\ statsFilters = DefaultFilters(0)
    /\ themeProvider = ThemeMounted
    /\ settingsScreen = SettingsMounted
    /\ dashboard = DashboardMounted(at)

\* the screens as first rendered
Mounted == MountedAt(ClockStart)

\* The transactions screen over the record store, from a first launch
Init == Mounted /\ storage = EmptyStorage

Next ==
    \/ Tick
    \/ StatsLoadData
    \/ DismissAlert
    \/ \E type \in {"expense", "income"} : OpenModalAdd(type)
    \/ \E transaction \in AllTransactions : OpenModalEdit(transaction)
    \/ \E type \in {"expense", "income"} : SetCurrentModalType(type)
    \/ \E text \in AmountTexts : SetAmountText(text)
    \/ CloseModal
    \/ \E setItemOk \in BOOLEAN : SaveTransaction(setItemOk)
    \/ \E transaction \in AllTransactions, setItemOk \in BOOLEAN :
           DeleteTransaction(transaction, setItemOk)

Spec == Init /\ [][Next]_vars

\* The reports screen over a store that holds any of the drawn collections
InitReports ==
    /\ Mounted
    /\ storage \in
           {Stored(e, i, <<>>) :
                e \in {s \in SeqsUpTo(ReportExpensePool, MaxExpenses) :
                           Injective(s)},
                i \in {s \in SeqsUpTo(ReportIncomePool, MaxIncome) :
                           Injective(s)}}

NextReports ==
    \/ Tick
    \/ ReportsLoadData
    \/ \E period \in Periods : SetSelectedPeriod(period)

SpecReports == InitReports /\ [][NextReports]_vars

\* Stored expenses the Top Expenses list is drawn over: of the current
\* month with equal and different amounts, and of last year
TopExpensePool ==
    { [amount |-> 1, date |-> ClockStart],
      [amount |-> 2, date |-> ClockStart],
      [amount |-> 9, date |-> NewDate(0, 2, 10)] }

\* the expense collections of n records over TopExpensePool
TopExpenseCollections(n) ==
    {[k \in 1..n |-> Expense(k, pick[k].amount, "Food", pick[k].date)] :
        pick \in [1..n -> TopExpensePool]}

\* The reports screen over a store that holds more expenses than Top
\* Expenses lists
InitTopExpenses ==
    /\ Mounted
    /\ storage \in
           {Stored(e, <<>>, <<>>) :
                e \in UNION {TopExpenseCollections(n) :
                                n \in 0..MaxTopExpenses}}

SpecTopExpenses == InitTopExpenses /\ [][NextReports]_vars

\* Stored expenses the trend is drawn over: dated at the first and the last
\* instant of year 1, at the end of January, in March, and in other years
TrendExpensePool ==
    { Expense(1, 1, "Food", NewDate(1, 0, 1)),
      Expense(2, 2, "Food", NewDate(1, 1, 1) - 1),
      Expense(3, 4, "Travel", ClockStart),
      Expense(4, 8, "Food", NewDate(2, 0, 1) - 1),
      Expense(5, 16, "Food", NewDate(0, 2, 15)),
      Expense(6, 32, "Travel", NewDate(2, 0, 1)) }

\* Stored income the trend is drawn over
TrendIncomePool ==
    { Income(21, 64, "Salary", ClockStart),
      Income(22, 128, "Salary", NewDate(0, 11, 31)) }

\* The reports screen opened in January, in March and in December
InitTrend ==
    /\ \E start \in ClockStarts : MountedAt(start)
    /\ storage \in
           {Stored(e, i, <<>>) :
                e \in {s \in SeqsUpTo(TrendExpensePool, MaxExpenses) :
                           Injective(s)},
                i \in {s \in SeqsUpTo(TrendIncomePool, MaxIncome) :
                           Injective(s)}}

SpecTrend == InitTrend /\ [][NextReports]_vars

\* An Account: id, name and balance
Account(id, name, balance) == [id |-> id, name |-> name, balance |-> balance]

\* The values the clients hand to the save function of a key: collections
\* whose amounts the forms parsed from "5", "10" and from ".", which
\* parseFloat turns into NaN, and the settings objects
SavedValues(key) ==
    CASE key = KEYS.EXPENSES ->
             { JsonArray(<<>>),
               JsonArray(<<Expense(1, ParseFloat("5"), "Food", ClockStart)>>),
               JsonArray(<<Expense(1, ParseFloat("5"), "Food", ClockStart),
                           Expense(2, ParseFloat("."), "Travel", ClockStart)>>) }
      [] key = KEYS.INCOME ->
             { JsonArray(<<Income(21, ParseFloat("5"), "Salary", ClockStart)>>),
               JsonArray(<<Income(22, ParseFloat("."), "Salary", ClockStart)>>) }
      [] key = KEYS.BUDGETS ->
             { JsonArray(<<Budget(31, "Food", ParseFloat("10"), "monthly", 0)>>),
               JsonArray(<<Budget(32, "Food", ParseFloat("."), "weekly", 0)>>) }
      [] key = KEYS.ACCOUNTS ->
             { JsonArray(<<>>), JsonArray(<<Account(41, "Cash", 5)>>) }
      [] key = KEYS.SETTINGS ->
             { JsonObject(DefaultSettings),
               JsonObject([darkMode |-> TRUE, currency |-> "rupee"]) }

\* Settings objects that hold one of the two keys of the default settings
PartialSettings == {[darkMode |-> TRUE], [currency |-> "dollar"]}

\* What AsyncStorage may hold under a key when the app starts: nothing, a
\* text that is no JSON, the text "null", or what a save function wrote
StoredItems(key) ==
    {NoItem, Unparsable, Text(JsonNull)}
        \cup {JsonStringify(value) : value \in SavedValues(key)}
        \cup (IF key = KEYS.SETTINGS
              THEN {JsonStringify(JsonObject(object)) :
                        object \in PartialSettings}
              ELSE {})

\* The record store and a client of its functions
InitStore ==
    /\ Mounted
    /\ storage \in
           {[expenses |-> e, income |-> i, budgets |-> b, accounts |-> a,
             settings |-> t] :
                e \in StoredItems(KEYS.EXPENSES),
                i \in StoredItems(KEYS.INCOME),
                b \in StoredItems(KEYS.BUDGETS),
                a \in StoredItems(KEYS.ACCOUNTS),
                t \in StoredItems(KEYS.SETTINGS)}

NextStore ==
    \/ \E key \in DOMAIN EmptyStorage, getItemOk \in BOOLEAN :
           GetCall(key, getItemOk)
    \/ \E key \in DOMAIN EmptyStorage, setItemOk \in BOOLEAN :
           \E value \in SavedValues(key) : SaveCall(key, value, setItemOk)

SpecStore == InitStore /\ [][NextStore]_vars

\* The budget screen and its modal over the record store, from a first
\* launch
InitBudgetForm == Mounted /\ storage = EmptyStorage

NextBudgetForm ==
    \/ Tick
    \/ BudgetLoadData
    \/ BudgetDismissAlert
    \/ BudgetOpenModalAdd
    \/ \E budget \in Range(budgetScreen.budgetsWithSpent) :
           BudgetOpenModalEdit(budget)
    \/ \E text \in BudgetAmountTexts : BudgetSetAmount(text)
    \/ \E category \in BudgetCategories : BudgetSetCategory(category)
    \/ BudgetCloseModal
    \/ \E setItemOk \in BOOLEAN : SaveBudget(setItemOk)
    \/ \E budget \in Range(budgetScreen.budgets), setItemOk \in BOOLEAN :
           DeleteBudget(budget.id, setItemOk)

SpecBudgetForm == InitBudgetForm /\ [][NextBudgetForm]_vars

\* The budget screen over a store that holds any of the drawn collections
InitBudget ==
    /\ Mounted
    /\ storage \in
           {Stored(e, <<>>, b) :
                e \in {s \in SeqsUpTo(BudgetExpensePool, MaxExpenses) :
                           Injective(s)},
                b \in {s \in SeqsUpTo(BudgetPool, MaxBudgets) :
                           Injective(s)}}

NextBudget ==
    \/ Tick
    \/ BudgetLoadData
    \/ BudgetRefreshing

SpecBudget == InitBudget /\ [][NextBudget]_vars

\* ExpensesScreen over the record store, from a first launch
InitExpenses == Mounted /\ storage = EmptyStorage

NextExpenses ==
    \/ Tick
    \/ ExpensesLoadData
    \/ ExpensesDismissAlert
    \/ ExpensesOpenModalAdd
    \/ \E expense \in Range(expensesScreen.expenses) :
           ExpensesOpenModalEdit(expense)
    \/ \E text \in AmountTexts : ExpensesSetAmount(text)
    \/ ExpensesCloseModal
    \/ \E setItemOk \in BOOLEAN : SaveExpense(setItemOk)
    \/ \E expense \in Range(expensesScreen.expenses), setItemOk \in BOOLEAN :
           DeleteExpense(expense.id, setItemOk)

SpecExpenses == InitExpenses /\ [][NextExpenses]_vars

\* Stored expenses the transaction list is filtered over: dated at the first
\* instant, in the middle, on the last day and at the last instant of March
\* of year 1, at the last instant of February and at the first of April
FilterExpensePool ==
    { Expense(1, 1, "Food", NewDate(1, 2, 1)),
      Expense(2, 2, "Food", ClockStart),
      Expense(3, 3, "Travel", NewDate(1, 2, 31)),
      Expense(4, 4, "Food", NewDate(1, 3, 1) - 1),
      Expense(5, 5, "Food", NewDate(1, 2, 1) - 1),
      Expense(6, 6, "Food", NewDate(1, 3, 1)) }

\* Stored income the transaction list is filtered over
FilterIncomePool ==
    { Income(21, 7, "Salary", NewDate(1, 2, 31) + 1),
      Income(22, 8, "Salary", NewDate(1, 1, 15)) }

\* The transactions screen opened in the middle and on the last day of
\* March, in any time zone, over a store that holds any of the drawn
\* collections
InitFilter ==
    /\ now \in {ClockStart, NewDate(1, 2, 31)}
    /\ consoleError = FALSE
    /\ call = NoCall
    /\ statsScreen = StatsMounted
    /\ reportsScreen = ReportsMounted(ClockStart)
    /\ budgetScreen = BudgetMounted(ClockStart)
    /\ expensesScreen = ExpensesMounted
    /\ \E timezone \in TimeZones : statsFilters = DefaultFilters(timezone)
    /\ themeProvider = ThemeMounted
    /\ settingsScreen = SettingsMounted
    /\ dashboard = DashboardMounted(ClockStart)
    /\ storage \in
           {Stored(e, i, <<>>) :
                e \in {s \in SeqsUpTo(FilterExpensePool, MaxExpenses) :
                           Injective(s)},
                i \in {s \in SeqsUpTo(FilterIncomePool, MaxIncome) :
                           Injective(s)}}

NextFilter ==
    \/ StatsLoadData
    \/ \E type \in {"all", "expense", "income"} : SetSelectedType(type)
    \/ ClearFilters

SpecFilter == InitFilter /\ [][NextFilter]_vars

\* the amount the user types into the forms of two screens
ScreensAmountTexts == {"5"}

\* The transactions screen, ExpensesScreen and Clear All Data of
\* SettingsScreen over one record store that holds a budget; the writes of
\* the two screens succeed
InitScreens ==
    /\ Mounted
    /\ storage = Stored(<<>>, <<>>, <<Budget(31, "Food", 10, "monthly", 0)>>)

NextScreens ==
    \/ Tick
    \/ ExpensesLoadData
    \/ ExpensesDismissAlert
    \/ ExpensesOpenModalAdd
    \/ \E expense \in Range(expensesScreen.expenses) :
           ExpensesOpenModalEdit(expense)
    \/ \E text \in ScreensAmountTexts : ExpensesSetAmount(text)
    \/ SaveExpense(TRUE)
    \/ \E expense \in Range(expensesScreen.expenses) :
           DeleteExpense(expense.id, TRUE)
    \/ StatsLoadData
    \/ DismissAlert
    \/ \E type \in {"expense", "income"} : OpenModalAdd(type)
    \/ \E text \in ScreensAmountTexts : SetAmountText(text)
    \/ SaveTransaction(TRUE)
    \/ \E transaction \in AllTransactions :
           DeleteTransaction(transaction, TRUE)
    \/ ClearAllData
    \/ SettingsDismissAlert
    \/ \E expensesOk \in BOOLEAN, incomeOk \in BOOLEAN :
           DeleteAll(expensesOk, incomeOk)

SpecScreens == InitScreens /\ [][NextScreens]_vars

\* ThemeProvider and SettingsScreen over the record store, from a first
\* launch
InitSettings == Mounted /\ storage = EmptyStorage

NextSettings ==
    \/ \E getItemOk \in BOOLEAN : LoadThemeGetSettings(getItemOk)
    \/ LoadThemeResume
    \/ ToggleTheme
    \/ \E k \in 1..MaxToggles, getItemOk \in BOOLEAN :
           ToggleThemeGetSettings(k, getItemOk)
    \/ \E k \in 1..MaxToggles, setItemOk \in BOOLEAN :
           ToggleThemeSaveSettings(k, setItemOk)
    \/ \E getItemOk \in BOOLEAN : LoadSettingsGetSettings(getItemOk)
    \/ LoadSettingsResume
    \/ \E value \in BOOLEAN : UpdateSetting(value)
    \/ \E k \in 1..MaxUpdates, setItemOk \in BOOLEAN :
           UpdateSettingSaveSettings(k, setItemOk)

SpecSettings == InitSettings /\ [][NextSettings]_vars

\* Stored expenses the alerts are counted over: of the current month and
\* of last month, and negative amounts (the forms accept "-3")
DashboardExpensePool ==
    { Expense(1, 8, "Food", NewDate(1, 2, 14)),
      Expense(2, 1, "Food", ClockStart),
      Expense(3, 12, "Food", NewDate(1, 2, 9)),
      Expense(4, 5, "Food", NewDate(1, 1, 20)),
      Expense(5, -3, "Food", NewDate(1, 2, 14)),
      Expense(6, -9, "Food", NewDate(1, 2, 14)),
      Expense(7, 9, "Travel", NewDate(1, 2, 14)) }

\* Stored budgets: a limit of 10, 0, -3 or -10 (the budget form accepts
\* "0" and "-3"), either period
DashboardBudgetPool ==
    { Budget(31, c, a, p, 0) :
          c \in {"Food", "Travel"}, a \in {10, 0, -3, -10},
          p \in {"weekly", "monthly"} }

\* Dashboard and the budget screen over a store that holds any of the drawn
\* collections
InitDashboard ==
    /\ Mounted
    /\ storage \in
           {Stored(e, <<>>, b) :
                e \in {s \in SeqsUpTo(DashboardExpensePool, MaxExpenses) :
                           Injective(s)},
                b \in {s \in SeqsUpTo(DashboardBudgetPool, MaxBudgets) :
                           Injective(s)}}

NextDashboard ==
    \/ Tick
    \/ DashboardLoadData
    \/ BudgetLoadData
    \/ BudgetRefreshing

SpecDashboard == InitDashboard /\ [][NextDashboard]_vars

-----------------------------------------------------------------------------
(* Properties: helpers *)

RECURSIVE SumAt(_, _)
\* the sum of the amounts of the records at the positions `at` of records
SumAt(records, at) ==
    IF at = {} THEN 0
    ELSE LET k == CHOOSE x \in at : TRUE
         IN  records[k].amount + SumAt(records, at \ {k})

\* the records at the positions `at` of records, in the order of records
Picked(records, at) ==
    [k \in 1..Cardinality(at) |->
        records[CHOOSE i \in at : Cardinality({j \in at : j < i}) = k - 1]]

\* a date that parsed and lies in [start, end]
Within(date, start, end) ==
    date # InvalidDate /\ start <= date /\ date <= end

\* 00:00 of the first day of the month of instant t
MonthStart(t) == NewDate(GetFullYear(t), GetMonth(t), 1)

-----------------------------------------------------------------------------
(* Properties of the record store and the transactions screen (Spec) *)

\* C1: when the storage write of a save fails, the handler that called the
\* save function takes its failure branch: it never reports success.
C1_FailedSaveIsReported ==
    consoleError => statsScreen.alert # "Success"

-----------------------------------------------------------------------------
(* Properties of the budget screen (SpecBudget) *)

\* positions of the expenses of a category dated in [start, end]
CategoryWithin(expenses, category, start, end) ==
    {k \in DOMAIN expenses :
        /\ expenses[k].category = category
        /\ Within(expenses[k].date, start, end)}

\* C2: for a monthly budget the recomputed spent is the sum of the amounts
\* of exactly the expenses of the budget's category dated from the first day
\* of the current month, 00:00, up to now; one dated after now is not counted.
C2_MonthlySpentIsWindowSum ==
    \A i \in DOMAIN budgetScreen.budgetsWithSpent :
        LET b == budgetScreen.budgetsWithSpent[i]
            at == budgetScreen.renderedAt
        IN  b.period = "monthly" =>
                b.spent = SumAt(budgetScreen.expenses,
                                CategoryWithin(budgetScreen.expenses,
                                               b.category, MonthStart(at), at))

\* C3: for a weekly budget the recomputed spent counts only the expenses of
\* the budget's category dated from now minus 7 days up to now; one older
\* than 7 days does not contribute.
C3_WeeklySpentIsWindowSum ==
    \A i \in DOMAIN budgetScreen.budgetsWithSpent :
        LET b == budgetScreen.budgetsWithSpent[i]
            at == budgetScreen.renderedAt
        IN  b.period = "weekly" =>
                b.spent = SumAt(budgetScreen.expenses,
                                CategoryWithin(budgetScreen.expenses,
                                               b.category,
                                               at - 7 * TicksPerDay, at))

\* the stored spent values a Budget record may carry
StoredSpent == {0, 7, 99}

\* the budget collections that differ from budgets in stored spent only
SpentVariants(budgets) ==
    {[i \in DOMAIN budgets |->
         Budget(budgets[i].id, budgets[i].category, budgets[i].amount,
                budgets[i].period, stored[i])] :
        stored \in [DOMAIN budgets -> StoredSpent]}

\* C4: the derived budget view (spent, percentage, isOverBudget, isNearLimit
\* of every budget, total spent, over-budget count) does not depend on the
\* stored spent: every budget collection that differs from the screen's in
\* stored spent only derives, from the same expenses at the same instant,
\* the view the screen shows.
C4_DerivedIgnoresStoredSpent ==
    \A variant \in SpentVariants(budgetScreen.budgets) :
        LET other == BudgetRender(variant, budgetScreen.expenses,
                                  budgetScreen.renderedAt)
        IN  /\ other.budgetsWithSpent = budgetScreen.budgetsWithSpent
            /\ other.totalSpent = budgetScreen.totalSpent
            /\ other.overBudgetCount = budgetScreen.overBudgetCount

\* a budget is shown whose stored spent is not what its expenses sum to
C4_Witness ==
    \E i \in DOMAIN budgetScreen.budgets :
        /\ budgetScreen.budgets[i].spent = 99
        /\ budgetScreen.budgetsWithSpent[i].spent = 9
        /\ budgetScreen.totalSpent = 9

\* C5: isOverBudget and isNearLimit are never both true; isOverBudget is
\* true exactly when spent > amount, isNearLimit exactly when
\* spent > 0.8 * amount and spent <= amount.
C5_FlagsExclusive ==
    \A i \in DOMAIN budgetScreen.budgetsWithSpent :
        LET b == budgetScreen.budgetsWithSpent[i]
        IN  /\ ~(b.isOverBudget /\ b.isNearLimit)
            /\ b.isOverBudget <=> (b.spent > b.amount)
            /\ b.isNearLimit <=>
                   (5 * b.spent > 4 * b.amount /\ b.spent <= b.amount)

\* budgets are shown at the limit (near, not over), above it (over, not
\* near) and at exactly 80% (neither)
C5_Witness ==
    \E i \in DOMAIN budgetScreen.budgetsWithSpent :
        LET b == budgetScreen.budgetsWithSpent[i]
        IN  /\ b.amount = 10
            /\ b.spent = 13
            /\ b.isOverBudget
            /\ ~b.isNearLimit

\* C6: percentage is (spent / amount) * 100 when amount > 0 and 0 otherwise;
\* it is always >= 0 and finite, also for a budget of amount 0 and for a
\* budget whose category matches no expense.
C6_PercentageDefined ==
    \A i \in DOMAIN budgetScreen.budgetsWithSpent :
        LET b == budgetScreen.budgetsWithSpent[i]
            p == b.percentage
        IN  /\ p.den > 0
            /\ p.num >= 0
            /\ IF b.amount > 0
               THEN p.num * b.amount = b.spent * 100 * p.den
               ELSE p.num = 0

-----------------------------------------------------------------------------
(* Properties of the reports screen (SpecReports) *)

\* the start of the period window at the instant `at`
PeriodStart(period, at) ==
    CASE period = "week" -> at - 7 * TicksPerDay
      [] period = "month" -> MonthStart(at)
      [] period = "year" -> NewDate(GetFullYear(at), 0, 1)

\* positions of the records dated in the window of the screen's period
InWindow(records) ==
    {k \in DOMAIN records :
        Within(records[k].date,
               PeriodStart(reportsScreen.selectedPeriod,
                           reportsScreen.filteredAt),
               reportsScreen.filteredAt)}

\* what the filters of filteredData returned when the memo last ran (the
\* render has since sorted the expenses in place)
FilterReturned ==
    FilteredData(reportsScreen.expenses, reportsScreen.income,
                 reportsScreen.selectedPeriod, reportsScreen.filteredAt)

\* C7: for each period the filter returns exactly the records whose date d
\* satisfies start <= d <= now, both ends included, in the order of the input.
C7_FilterIsWindow ==
    /\ FilterReturned.expenses =
           Picked(reportsScreen.expenses, InWindow(reportsScreen.expenses))
    /\ FilterReturned.income =
           Picked(reportsScreen.income, InWindow(reportsScreen.income))
    /\ reportsScreen.filteredData.income = FilterReturned.income
    /\ reportsScreen.filteredData.expenses =
           SortByAmount(FilterReturned.expenses)

\* the week is selected; of two loaded expenses the one dated exactly seven
\* days before now is kept and the other is dropped
C7_Witness ==
    /\ reportsScreen.selectedPeriod = "week"
    /\ Len(reportsScreen.expenses) = 2
    /\ Len(reportsScreen.filteredData.expenses) = 1
    /\ reportsScreen.filteredData.expenses[1].date =
           reportsScreen.filteredAt - 7 * TicksPerDay

\* the records whose date parsed
Parsed(records) ==
    Picked(records, {k \in DOMAIN records : records[k].date # InvalidDate})

\* C8: a record whose date cannot be parsed is in no period-filtered set and
\* in no month of the trend, and the screen shows what it would show had the
\* record not been loaded.
C8_UnparsableDateExcluded ==
    LET without ==
            ReportsRender(Parsed(reportsScreen.expenses),
                          Parsed(reportsScreen.income),
                          reportsScreen.selectedPeriod,
                          reportsScreen.filteredAt,
                          MonthlyTrend(Parsed(reportsScreen.expenses),
                                       Parsed(reportsScreen.income),
                                       reportsScreen.trendAt),
                          reportsScreen.trendAt)
    IN  /\ \A r \in Range(reportsScreen.filteredData.expenses)
                    \cup Range(reportsScreen.filteredData.income) :
               r.date # InvalidDate
        /\ reportsScreen.filteredData = without.filteredData
        /\ reportsScreen.categoryData = without.categoryData
        /\ reportsScreen.stats = without.stats
        /\ reportsScreen.monthlyTrend = without.monthlyTrend

\* an expense and an income record with unparsable dates are loaded beside
\* an expense of the period, which alone is counted
C8_Witness ==
    /\ \E r \in Range(reportsScreen.expenses) : r.date = InvalidDate
    /\ \E r \in Range(reportsScreen.income) : r.date = InvalidDate
    /\ Len(reportsScreen.filteredData.expenses) = 1
    /\ reportsScreen.stats.totalExpenses = 16
    /\ reportsScreen.monthlyTrend.expenses = <<0, 0, 16>>

\* C9: with non-negative amounts, the total expenses (total income) is the
\* sum of the amounts of exactly the records dated in the period window,
\* and 0 when there is none.
C9_TotalsAreWindowSums ==
    (\A r \in Range(reportsScreen.expenses) \cup Range(reportsScreen.income) :
         r.amount >= 0)
    => /\ reportsScreen.stats.totalExpenses =
              SumAt(reportsScreen.expenses, InWindow(reportsScreen.expenses))
       /\ reportsScreen.stats.totalIncome =
              SumAt(reportsScreen.income, InWindow(reportsScreen.income))
       /\ InWindow(reportsScreen.expenses) = {}
              => reportsScreen.stats.totalExpenses = 0
       /\ InWindow(reportsScreen.income) = {}
              => reportsScreen.stats.totalIncome = 0

\* an expense and an income record of the window are totalled while an
\* expense outside the window is loaded
C9_Witness ==
    /\ Len(reportsScreen.expenses) = 2
    /\ Cardinality(InWindow(reportsScreen.expenses)) = 1
    /\ reportsScreen.stats.totalExpenses = 64
    /\ reportsScreen.stats.totalIncome = 20

\* C10: the average expense is the total of the filtered expenses divided by
\* their count when there is one, and 0 (a number) when there is none.
C10_AverageDefined ==
    LET filtered == reportsScreen.filteredData.expenses
        average == reportsScreen.stats.averageExpense
    IN  /\ average.den # 0
        /\ IF Len(filtered) > 0
           THEN average.num * Len(filtered) =
                    SumAt(filtered, DOMAIN filtered) * average.den
           ELSE average.num = 0

\* expenses are loaded and none is of the period: the average is 0
C10_Witness ==
    /\ reportsScreen.expenses # <<>>
    /\ reportsScreen.filteredData.expenses = <<>>
    /\ reportsScreen.stats.averageExpense = Num(0)

\* position in records of the first record of the category
FirstOf(records, category) ==
    CHOOSE k \in DOMAIN records :
        /\ records[k].category = category
        /\ \A j \in 1..(k - 1) : records[j].category # category

\* positions of the records of the category
OfCategory(records, category) ==
    {k \in DOMAIN records : records[k].category = category}

\* C11: the grouped totals have one entry for every category that occurs in
\* the filtered expenses, its value is the sum of the amounts of the filtered
\* expenses of that category, and the entries are in the order in which each
\* category first appears in the filtered expenses.
C11_GroupedTotals ==
    LET filtered == FilterReturned.expenses
        totals == reportsScreen.categoryData
    IN  /\ {totals[i].name : i \in DOMAIN totals} =
               {filtered[k].category : k \in DOMAIN filtered}
        /\ \A i, j \in DOMAIN totals :
               i < j => FirstOf(filtered, totals[i].name)
                            < FirstOf(filtered, totals[j].name)
        /\ \A i \in DOMAIN totals :
               totals[i].population =
                   SumAt(filtered, OfCategory(filtered, totals[i].name))

\* the total of a category over the filtered expenses
TotalOf(filtered, category) == SumAt(filtered, OfCategory(filtered, category))

\* C12: the top category is a category of the largest total over the
\* filtered expenses, the first encountered of those that tie; it is null
\* exactly when there is no filtered expense.
C12_TopCategory ==
    LET filtered == FilterReturned.expenses
        top == reportsScreen.stats.topCategory
    IN  /\ (top = NoCategory) <=> (filtered = <<>>)
        /\ filtered # <<>> =>
               /\ \E k \in DOMAIN filtered : filtered[k].category = top.name
               /\ top.population = TotalOf(filtered, top.name)
               /\ \A k \in DOMAIN filtered :
                      LET other == TotalOf(filtered, filtered[k].category)
                      IN  /\ other <= top.population
                          /\ other = top.population =>
                                 FirstOf(filtered, top.name) <= k

-----------------------------------------------------------------------------
(* Properties of the Top Expenses list (SpecTopExpenses) *)

\* C13: Top Expenses lists min(5, number of filtered expenses) of the
\* filtered expenses, in non-increasing order of amount, and no filtered
\* expense outside the list has an amount larger than the smallest listed.
C13_TopExpenses ==
    LET filtered == FilterReturned.expenses
        top == reportsScreen.topExpenses
    IN  /\ Len(top) = (IF Len(filtered) < 5 THEN Len(filtered) ELSE 5)
        /\ Range(top) \subseteq Range(filtered)
        /\ Injective(top)
        /\ \A i, j \in DOMAIN top : i < j => top[i].amount >= top[j].amount
        /\ \A r \in Range(filtered) \ Range(top) :
               r.amount <= top[Len(top)].amount

\* six expenses are filtered, the last of them larger than the first: five
\* are listed, the last leads and a smaller one is left out
C13_Witness ==
    LET filtered == FilterReturned.expenses
        top == reportsScreen.topExpenses
    IN  /\ Len(filtered) = 6
        /\ filtered[6].amount > filtered[1].amount
        /\ Len(top) = 5
        /\ top[1].amount = 2
        /\ top[5].amount = 1
        /\ filtered[6] \in Range(top)

-----------------------------------------------------------------------------
(* Properties of the monthly trend (SpecTrend) *)

\* C14: the labels and the two data sequences of the trend have length
\* current month + 1 and stand for January up to the current month, in
\* order: there is no entry for a later month.
C14_TrendLength ==
    LET trend == reportsScreen.monthlyTrend
        length == GetMonth(reportsScreen.trendAt) + 1
    IN  /\ Len(trend.labels) = length
        /\ Len(trend.expenses) = length
        /\ Len(trend.income) = length
        /\ \A k \in 1..length : trend.labels[k] = months[k]

\* in January the trend has the one entry of January, in December all twelve
C14_Witness ==
    /\ reportsScreen.expenses # <<>>
    /\ GetMonth(reportsScreen.trendAt) = 0
    /\ reportsScreen.monthlyTrend.labels = <<"Jan">>
    /\ reportsScreen.monthlyTrend.expenses = <<1>>

\* positions of the records dated in month index m of the year
InMonthOf(records, m, year) ==
    {k \in DOMAIN records :
        /\ records[k].date # InvalidDate
        /\ NewDate(year, m, 1) <= records[k].date
        /\ records[k].date < NewDate(year, m, 1) + DaysInMonth[m + 1] * TicksPerDay}

\* C15: for every month index m up to the current month the trend's expense
\* (income) value at m is the sum of the amounts of the expenses (income
\* records) dated in month m of the current year, whatever report period is
\* selected; a record of another year adds to no month.
C15_TrendValues ==
    LET trend == reportsScreen.monthlyTrend
        year == GetFullYear(reportsScreen.trendAt)
    IN  \A m \in 0..GetMonth(reportsScreen.trendAt) :
            /\ trend.expenses[m + 1] =
                   SumAt(reportsScreen.expenses,
                         InMonthOf(reportsScreen.expenses, m, year))
            /\ trend.income[m + 1] =
                   SumAt(reportsScreen.income,
                         InMonthOf(reportsScreen.income, m, year))

\* in December, with the week selected, an expense of the last instant of
\* the year is counted in December and an expense of March of the year
\* before in no month
C15_Witness ==
    /\ reportsScreen.selectedPeriod = "week"
    /\ GetMonth(reportsScreen.trendAt) = 11
    /\ Len(reportsScreen.expenses) = 2
    /\ \E r \in Range(reportsScreen.expenses) : GetFullYear(r.date) = 0
    /\ reportsScreen.monthlyTrend.expenses =
           <<0, 0, 0, 0, 0, 0, 0, 0, 0, 0, 0, 8>>

-----------------------------------------------------------------------------
(* Properties of the record store (SpecStore) *)

\* C16: every load returns a well-typed value: a collection for a collection
\* key (never null) and a settings object for the settings; when the key is
\* missing, the read fails or the stored text is malformed, it is the empty
\* collection, or the default settings.
C16_LoadIsWellTyped ==
    call.fn = "get" =>
        /\ call.key \in CollectionKeys => call.result.type = "array"
        /\ call.key = KEYS.SETTINGS => call.result.type = "object"
        /\ (consoleError \/ storage[call.key].kind # "json")
               => call.result = Default(call.key)

\* C17: a save of the collection c that succeeded, followed by a load of the
\* same key with no save to that key in between, returns a collection equal
\* to c: the same records in the same order.
C17_RoundTrip ==
    (call.fn = "save" /\ ~consoleError)
        => Get(call.key, TRUE) = call.argument

\* a save leaves what is stored under every other key as it was, and a load
\* leaves the store as it was
SaveLeavesOtherKeys ==
    [][/\ call'.fn = "save" =>
              \A key \in DOMAIN storage \ {call'.key} :
                  storage'[key] = storage[key]
       /\ call'.fn = "get" => storage' = storage]_vars

-----------------------------------------------------------------------------
(* Properties of the forms (Spec, SpecBudgetForm) *)

\* no two records of the collection have the same id
UniqueIds(records) ==
    \A i, j \in DOMAIN records : i # j => records[i].id # records[j].id

\* C18: after any sequence of add, edit and delete operations no two records
\* of a collection share an id, also when two records are added at the same
\* reading of the clock.
C18_IdsUnique ==
    /\ UniqueIds(statsScreen.expenses)
    /\ UniqueIds(statsScreen.income)
    /\ UniqueIds(GetExpenses)
    /\ UniqueIds(GetIncome)

\* the amount is a number and not negative
NonNegativeNumber(amount) ==
    amount # NaN /\ amount # NullNumber /\ amount >= 0

\* C19: after any sequence of add and edit operations through the forms every
\* stored expense and income record has a numeric amount >= 0.
C19_AmountsNonNegative ==
    \A r \in Range(GetExpenses) \cup Range(GetIncome)
             \cup Range(statsScreen.expenses) \cup Range(statsScreen.income) :
        NonNegativeNumber(r.amount)

\* C20: after any sequence of saveBudget and deleteBudget operations every
\* stored budget has a numeric amount > 0.
C20_BudgetAmountsPositive ==
    \A b \in Range(GetBudgets) \cup Range(budgetScreen.budgets) :
        NonNegativeNumber(b.amount) /\ b.amount > 0

\* no two budgets of the collection have the same category
OnePerCategory(budgets) ==
    \A i, j \in DOMAIN budgets :
        i # j => budgets[i].category # budgets[j].category

\* C21: after any sequence of saveBudget (create or edit) and deleteBudget
\* operations from a collection with at most one budget per category, the
\* budget collection holds at most one budget per category.
C21_OneBudgetPerCategory ==
    /\ OnePerCategory(budgetScreen.budgets)
    /\ OnePerCategory(GetBudgets)


-----------------------------------------------------------------------------
(* Properties of ExpensesScreen (SpecExpenses) *)

\* C22: saving an edit replaces exactly the edited record with the new
\* record, which keeps the id and the date of the original; the length of
\* the collection, the position of the edited record and every other record
\* are unchanged.
C22_EditReplacesOneRecord ==
    [][ ( /\ expensesScreen.editingExpense # Null
          /\ expensesScreen.isModalVisible
          /\ expensesScreen.alert = "none"
          /\ expensesScreen'.alert = "Success" )
        => LET editing == expensesScreen.editingExpense
               old == expensesScreen.expenses
               new == expensesScreen'.expenses
           IN  /\ Len(new) = Len(old)
               /\ \A k \in DOMAIN old :
                      IF old[k] = editing
                      THEN /\ new[k].id = editing.id
                           /\ new[k].date = editing.date
                           /\ new[k].amount =
                                  ParseFloat(expensesScreen.formData.amount)
                           /\ new[k].category =
                                  expensesScreen.formData.category
                      ELSE new[k] = old[k]
      ]_vars

\* C26: whenever an add, edit or delete handler of the screen has finished,
\* the collection in memory equals the collection stored under its key; when
\* the write failed the collection in memory is left as it was.
C26_MemoryEqualsStorage ==
    expensesScreen.expenses = GetExpenses

-----------------------------------------------------------------------------
(* Properties of the record store (SpecStore), continued *)

\* C23: loading the settings yields a darkMode and a currency that are each
\* defined; a key that the stored settings lack has its default (darkMode
\* false, the default currency), also when the other key is stored.
C23_SettingsKeysDefaulted ==
    ( /\ call.fn = "get"
      /\ call.key = KEYS.SETTINGS
      /\ call.result.type = "object" )
    => LET settings == call.result.object
           stored == storage[KEYS.SETTINGS]
           lacks(key) == /\ stored.kind = "json"
                         /\ stored.json.type = "object"
                         /\ key \notin DOMAIN stored.json.object
       IN  /\ "darkMode" \in DOMAIN settings
           /\ "currency" \in DOMAIN settings
           /\ lacks("darkMode") => settings.darkMode = DefaultSettings.darkMode
           /\ lacks("currency") => settings.currency = DefaultSettings.currency

-----------------------------------------------------------------------------
(* Properties of the screens over one record store (SpecScreens) *)

\* C24: after the user has confirmed Clear All Data and the operation has
\* completed without a storage failure, the stored expenses, income and
\* budgets are all empty.
C24_ClearAllEmptiesTheStore ==
    [][ ( /\ settingsScreen.alert = "Clear All Data"
          /\ settingsScreen'.alert = "Success"
          /\ ~consoleError' )
        => /\ GetExpenses' = <<>>
           /\ GetIncome' = <<>>
           /\ GetBudgets' = <<>>
      ]_vars

\* the ids of the records of a collection
Ids(records) == {records[k].id : k \in DOMAIN records}

\* C28: across the screens that each keep their own snapshot of the expenses,
\* a record that was added and not deleted stays in storage and a record that
\* was deleted or cleared does not come back, whatever another screen adds,
\* edits or deletes later: a handler that saves keeps every stored record and
\* brings in at most the record it adds, a handler that deletes takes out
\* one record and brings in none.
C28_NoLostOrRevivedRecord ==
    [][ ( /\ storage'[KEYS.EXPENSES] # storage[KEYS.EXPENSES]
          /\ settingsScreen' = settingsScreen )
        => LET before == Ids(GetExpenses)
               after == Ids(GetExpenses')
               saves == \/ /\ expensesScreen' # expensesScreen
                           /\ expensesScreen.isModalVisible
                        \/ /\ statsScreen' # statsScreen
                           /\ statsScreen.isModalVisible
           IN  /\ after \ before \subseteq {now}
               /\ saves => before \subseteq after
               /\ ~saves => /\ after \subseteq before
                            /\ Cardinality(before \ after) <= 1
      ]_vars

-----------------------------------------------------------------------------
(* Properties of the transaction filters (SpecFilter) *)

\* 00:00 of the first day of the month after the month of instant t
NextMonthStart(t) == NewDate(GetFullYear(t), GetMonth(t) + 1, 1)

\* C25: with the default filters (type and category 'all', the default start
\* and end date) the filtered list holds every expense and income dated
\* within the current calendar month, its last day included, and no record
\* dated outside that month.
C25_DefaultFilterIsCurrentMonth ==
    statsFilters = DefaultFilters(statsFilters.timezone)
        => FilteredTransactions =
               {transaction \in AllTransactions :
                    Within(transaction.date, MonthStart(now),
                           NextMonthStart(now) - 1)}

-----------------------------------------------------------------------------
(* Properties of the transactions screen (Spec), continued *)

\* C27: on the transactions screen saving an edit never creates a record:
\* the number of records of expenses and income together is unchanged and
\* no id comes to occur in both collections, also when the Expense / Income
\* toggle is switched while editing.
C27_EditCreatesNoRecord ==
    [][ ( /\ statsScreen.editingTransaction # Null
          /\ statsScreen.isModalVisible
          /\ statsScreen.alert = "none"
          /\ statsScreen'.alert = "Success" )
        => /\ Len(statsScreen'.expenses) + Len(statsScreen'.income)
                  = Len(statsScreen.expenses) + Len(statsScreen.income)
           /\ Ids(statsScreen'.expenses) \cap Ids(statsScreen'.income)
                  \subseteq Ids(statsScreen.expenses)
                                \cap Ids(statsScreen.income)
      ]_vars

-----------------------------------------------------------------------------
(* Properties of ThemeProvider and SettingsScreen (SpecSettings) *)

\* the darkMode of the stored settings (false when they hold none)
StoredDarkMode ==
    LET settings == Get(KEYS.SETTINGS, TRUE)
    IN  settings.type = "object" /\ DarkModeOf(settings)

\* the notifications of the stored settings
StoredNotifications ==
    LET settings == Get(KEYS.SETTINGS, TRUE)
    IN  IF settings.type = "object"
           /\ "notifications" \in DOMAIN settings.object
        THEN IF settings.object.notifications THEN "true" ELSE "false"
        ELSE "undefined"

\* loadTheme and every call of toggleTheme and updateSetting have returned
\* and no storage call has failed
ThemeSettled ==
    /\ themeProvider.loadTheme.pc = "returned"
    /\ themeProvider.toggleTheme = <<>>
    /\ settingsScreen.updateSetting = <<>>
    /\ ~themeProvider.failed

\* C29: once the theme load and every started toggleTheme have completed
\* without a storage failure, isDark equals the stored darkMode, for every
\* interleaving of the load, the toggles and an updateSetting of another
\* key; and the write of a toggle loses no key that updateSetting wrote.
C29_ThemeMatchesStore ==
    /\ [](ThemeSettled => themeProvider.isDark = StoredDarkMode)
    /\ [][ ( /\ Len(themeProvider'.toggleTheme) < Len(themeProvider.toggleTheme)
             /\ ~themeProvider'.failed )
           => StoredNotifications' = StoredNotifications
         ]_vars

-----------------------------------------------------------------------------
(* Properties of Dashboard (SpecDashboard) *)

\* C30: for the same budgets, expenses and instant, the number of budget
\* alerts of the dashboard is the number of budgets that the budget screen
\* shows near their limit or over budget.
C30_AlertsAgree ==
    ( /\ dashboard.statsAt = budgetScreen.renderedAt
      /\ dashboard.budgets = budgetScreen.budgets
      /\ dashboard.expenses = budgetScreen.expenses )
    => LET flagged(budget) == budget.isNearLimit \/ budget.isOverBudget
       IN  dashboard.stats.budgetAlerts
               = Len(SelectSeq(budgetScreen.budgetsWithSpent, flagged))

=============================================================================
